---- MODULE Spec2Model ----
(***************************************************************************)
(* Option-chain open-interest (OI) change analysis, as implemented by the  *)
(* programs of the repository:                                             *)
(*   app.py          the Flask web application (background cycle, /status) *)
(*   oi_tracker.py   lines 1-191: the Upstox console tracker ("CLI")       *)
(*                   lines 193-915: the Kite console tracker ("Kite")      *)
(*   logic.py, tracker_logic.py   the database-backed worker               *)
(*                                                                         *)
(* Numbers.  Prices, strikes and OI are integers.  A percentage is kept    *)
(* exactly: either in hundredths of a percent (an integer, where the code  *)
(* rounds to 2 decimals) or as a fraction <<num, den>> with den > 0 (where *)
(* the code keeps the unrounded quotient).  Time is in whole minutes.      *)
(***************************************************************************)
EXTENDS Integers, Sequences, FiniteSets, TLC

VARIABLES
    args,   \* pure-function harness: the inputs drawn for this run
    fn,     \* pure-function harness: the function that was applied ("none" before)
    ret,    \* pure-function harness: what it returned
    app_state,          \* app.py: the global app_state dictionary
    app_pc,             \* app.py: where each thread stands (main, scheduler)
    app_atm_strike,     \* app.py: update_data_in_background's local atm_strike, per thread
    app_option_chain,   \* app.py: update_data_in_background's local option_chain, per thread
    app_candles,        \* app.py: what get_historical_oi returned in the cycle, per thread
    reader_pc,          \* app.py: where the request thread serving GET /status stands
    response,           \* app.py: the dictionary status_endpoint is building
    clock,              \* the wall clock, datetime.now(), in minutes
    kite_pc,            \* Kite: where main stands
    nfo_instruments,    \* Kite: main's instrument list, fetched once at startup
    display_content,    \* Kite: main's local display_content
    live,               \* Kite: the renderable the Live display shows
    oi_data_store,      \* CLI: main's oi_data_store
    cli_cycle,          \* CLI: main's locals at the end of the last completed cycle
    screen,             \* CLI: the tables and the alert on the console
    oi_datapoints,      \* worker: the rows of the table oi_datapoints, in order of id
    oi_results          \* worker: the rows of the table oi_results, in order of id

harnessVars == <<args, fn, ret>>
cycleVars == <<app_pc, app_atm_strike, app_option_chain, app_candles>>
readerVars == <<reader_pc, response>>
appVars == <<app_state, cycleVars, readerVars>>
kiteVars == <<kite_pc, nfo_instruments, display_content, live>>
cliVars == <<oi_data_store, cli_cycle, screen>>
workerVars == <<oi_datapoints, oi_results>>
programVars == <<appVars, kiteVars, cliVars, workerVars, clock>>
vars == <<harnessVars, programVars>>

----------------------------------------------------------------------------
(* Bounds of the model *)

MaxStrikeIdx == 7      \* strikes are drawn from 50, 100, ..., 50 * MaxStrikeIdx
MaxPriceIdx == 72      \* prices are drawn from 30, 35, ..., 5 * MaxPriceIdx

----------------------------------------------------------------------------
(* Program constants *)

STRIKE_DIFFERENCE == 50
NUM_STRIKES == 2

----------------------------------------------------------------------------
(* Python built-ins, as the interpreter computes them *)

Abs(x) == IF x < 0 THEN -x ELSE x

Max(a, b) == IF a >= b THEN a ELSE b

Min(a, b) == IF a <= b THEN a ELSE b

Range(s) == {s[i] : i \in DOMAIN s}

\* round(n / d) for d > 0: Python 3 rounds a half to the even neighbour.
PyRound(n, d) ==
    LET q == n \div d
        r == n % d
    IN  IF 2 * r < d THEN q
        ELSE IF 2 * r > d THEN q + 1
        ELSE IF q % 2 = 0 THEN q ELSE q + 1

\* seq[start:end] with Python's treatment of negative and out-of-range indices.
PySlice(seq, start, end) ==
    LET n == Len(seq)
        a == IF start < 0 THEN Max(0, start + n) ELSE Min(start, n)
        b == IF end < 0 THEN Max(0, end + n) ELSE Min(end, n)
    IN  IF a >= b THEN << >> ELSE SubSeq(seq, a + 1, b)

\* list.sort(): insertion of each element into an ascending prefix.
RECURSIVE PyInsert(_, _)
PyInsert(sorted, x) ==
    IF sorted = << >> THEN <<x>>
    ELSE IF x < Head(sorted) THEN <<x>> \o sorted
    ELSE <<Head(sorted)>> \o PyInsert(Tail(sorted), x)

RECURSIVE PySort(_)
PySort(seq) ==
    IF seq = << >> THEN << >>
    ELSE PyInsert(PySort(SubSeq(seq, 1, Len(seq) - 1)), seq[Len(seq)])

\* list.index(x): the 0-based position of the first x; -1 stands for ValueError.
PyIndex(seq, x) ==
    IF \E i \in DOMAIN seq : seq[i] = x
    THEN (CHOOSE i \in DOMAIN seq : seq[i] = x /\ \A j \in 1..(i - 1) : seq[j] # x) - 1
    ELSE -1

\* min(seq, key=...): the first element, in iteration order, with the least key.
RECURSIVE PyMinByDistance(_, _, _, _)
PyMinByDistance(seq, target, i, best) ==
    IF i > Len(seq) THEN best
    ELSE PyMinByDistance(seq, target, i + 1,
             IF Abs(seq[i] - target) < Abs(best - target) THEN seq[i] ELSE best)

----------------------------------------------------------------------------
(* The state of the programs after construction *)

\* Python values of the change cells: None, or a number kept as num / den.
PyNone == [kind |-> "None", num |-> 0, den |-> 1]

PyNumber(n, d) == [kind |-> "number", num |-> n, den |-> d]

\* app.py: the main thread, and the thread that runs background_scheduler
Threads == {"main", "scheduler"}

\* app.py:35-40, then initialize_api_client succeeded (line 66) and __main__
\* is about to run the first update (line 321)
AppInit ==
    /\ app_state = [status |-> "Initialized",
                    message |-> "API client connected. Waiting for first data fetch.",
                    last_updated |-> PyNone,
                    data |-> << >>]
    /\ app_pc = [self \in Threads |->
                    IF self = "main" THEN "update_data_in_background" ELSE "not started"]
    /\ app_atm_strike = [self \in Threads |-> PyNone]
    /\ app_option_chain = [self \in Threads |-> << >>]
    /\ app_candles = [self \in Threads |-> << >>]
    /\ reader_pc = "idle"
    /\ response = << >>

\* rich renderables
NoRenderable == [kind |-> "None", title |-> "", body |-> << >>]
Panel(text, title) == [kind |-> "Panel", title |-> title, body |-> <<text>>]
Group(tables) == [kind |-> "Group", title |-> "", body |-> <<tables>>]

\* oi_tracker.py (Kite): main before the instruments are fetched
KiteInit ==
    /\ kite_pc = "main"
    /\ nfo_instruments = {}
    /\ display_content = NoRenderable
    /\ live = NoRenderable

\* oi_tracker.py (CLI):121, before the first pass of the loop
CliInit ==
    /\ oi_data_store = << >>
    /\ cli_cycle = [relevant_strikes |-> << >>, total_red_cells |-> 0, total_cells |-> 0]
    /\ screen = [call |-> << >>, put |-> << >>, alert |-> FALSE]

\* database.py:12-80: init_db creates the tables, empty
WorkerInit ==
    /\ oi_datapoints = << >>
    /\ oi_results = << >>

ProgramsInit == AppInit /\ KiteInit /\ CliInit /\ WorkerInit /\ clock = 0

\* the programs at their start, no function applied by itself
RunInit ==
    /\ args = << >>
    /\ fn = "none"
    /\ ret = << >>
    /\ ProgramsInit

----------------------------------------------------------------------------
(* StrikeSelector *)

\* The strike just above the price, as a search for the first strike >= ltp gives.
find_atm_strike_ceiling(ltp, strikes) ==
    IF \E i \in DOMAIN strikes : strikes[i] >= ltp
    THEN strikes[CHOOSE i \in DOMAIN strikes :
                    strikes[i] >= ltp /\ \A j \in 1..(i - 1) : strikes[j] < ltp]
    ELSE strikes[Len(strikes)]

\* logic.py, tracker_logic.py, oi_tracker.py: min(strikes, key=lambda x: abs(x - ltp))
find_atm_strike(ltp, strikes) ==
    PyMinByDistance(strikes, ltp, 2, strikes[1])

\* app.py, oi_tracker.py (Kite): round(ltp / STRIKE_DIFFERENCE) * STRIKE_DIFFERENCE
get_atm_strike(ltp) ==
    PyRound(ltp, STRIKE_DIFFERENCE) * STRIKE_DIFFERENCE

\* The band around index atm_index of the sorted list, below and above it.
BandAround(atm_strike, strikes, below, above) ==
    LET sorted == PySort(strikes)
        atm_index == PyIndex(sorted, atm_strike)
    IN  IF atm_index = -1 THEN << >>
        ELSE PySlice(sorted, Max(0, atm_index - below),
                             Min(Len(sorted), atm_index + above))

\* The slice with the end index one short (atm_index + 2 for atm_index + 3).
get_relevant_strikes_short(atm_strike, strikes) ==
    BandAround(atm_strike, strikes, 2, 2)

\* The lookup failure answered with the whole list instead of the empty one.
get_relevant_strikes_whole(atm_strike, strikes) ==
    IF PyIndex(PySort(strikes), atm_strike) = -1 THEN PySort(strikes)
    ELSE BandAround(atm_strike, strikes, 2, 3)

\* oi_tracker.py (CLI): ATM, 2 strikes below, 2 above
get_relevant_strikes(atm_strike, strikes) ==
    BandAround(atm_strike, strikes, 2, 3)

\* logic.py, tracker_logic.py: ATM, 3 strikes below, 3 above
logic_get_relevant_strikes(atm_strike, all_strikes) ==
    BandAround(atm_strike, all_strikes, 3, 4)

\* app.py: [atm_strike + (i * STRIKE_DIFFERENCE) for i in range(-NUM_STRIKES, NUM_STRIKES + 1)]
strikes_to_fetch(atm_strike) ==
    [k \in 1..(2 * NUM_STRIKES + 1) |->
        atm_strike + (k - 1 - NUM_STRIKES) * STRIKE_DIFFERENCE]

\* app.py: the strikes of the chain that the loop of update_data_in_background
\* processes, in chain order: strike_data.strike_price in strikes_to_fetch
chain_strikes_processed(atm_strike, chain_strikes) ==
    LET wanted == Range(strikes_to_fetch(atm_strike))
        Wanted(s) == s \in wanted
    IN  SelectSeq(chain_strikes, Wanted)

----------------------------------------------------------------------------
(* Inputs of the strike functions *)

RECURSIVE SetToAscending(_)
SetToAscending(S) ==
    IF S = {} THEN << >>
    ELSE LET m == CHOOSE x \in S : \A y \in S : x <= y
         IN  <<m>> \o SetToAscending(S \ {m})

StrikeUniverse == {STRIKE_DIFFERENCE * k : k \in 1..MaxStrikeIdx}

\* every non-empty ascending list of distinct strikes of the universe
StrikeLists == {SetToAscending(S) : S \in (SUBSET StrikeUniverse) \ {{}}}

\* last prices; from 30 on get_atm_strike gives a strike that is not 0, which
\* its callers take for a failed fetch
Prices == {5 * k : k \in 6..MaxPriceIdx}

\* values handed to get_relevant_strikes as the ATM: members and non-members
AtmInputs == StrikeUniverse \cup {STRIKE_DIFFERENCE * (MaxStrikeIdx + 1)}

----------------------------------------------------------------------------
(* The strike functions applied to drawn inputs *)

StrikeInit ==
    /\ args \in [ltp : Prices, strikes : StrikeLists]
    /\ fn = "none"
    /\ ret = [atm |-> 0, band |-> << >>]
    /\ ProgramsInit

Call_find_atm_strike ==
    /\ fn = "none"
    /\ fn' = "find_atm_strike"
    /\ ret' = [atm |-> find_atm_strike(args.ltp, args.strikes), band |-> << >>]
    /\ UNCHANGED <<args, programVars>>

Call_get_atm_strike ==
    /\ fn = "none"
    /\ fn' = "get_atm_strike"
    /\ ret' = [atm |-> get_atm_strike(args.ltp), band |-> << >>]
    /\ UNCHANGED <<args, programVars>>

Call_get_relevant_strikes ==
    /\ fn = "none"
    /\ \E atm \in AtmInputs :
          ret' = [atm |-> atm, band |-> get_relevant_strikes(atm, args.strikes)]
    /\ fn' = "get_relevant_strikes"
    /\ UNCHANGED <<args, programVars>>

Call_logic_get_relevant_strikes ==
    /\ fn = "none"
    /\ \E atm \in AtmInputs :
          ret' = [atm |-> atm, band |-> logic_get_relevant_strikes(atm, args.strikes)]
    /\ fn' = "logic_get_relevant_strikes"
    /\ UNCHANGED <<args, programVars>>

\* app.py: the ATM from the price, then the chain's strikes that get processed
Call_chain_strikes_processed ==
    /\ fn = "none"
    /\ LET atm == get_atm_strike(args.ltp)
       IN  ret' = [atm |-> atm, band |-> chain_strikes_processed(atm, args.strikes)]
    /\ fn' = "chain_strikes_processed"
    /\ UNCHANGED <<args, programVars>>

StrikeNext ==
    \/ Call_find_atm_strike
    \/ Call_get_atm_strike
    \/ Call_get_relevant_strikes
    \/ Call_logic_get_relevant_strikes
    \/ Call_chain_strikes_processed

SpecStrike == StrikeInit /\ [][StrikeNext]_vars

----------------------------------------------------------------------------
(* ChangeCalculator *)

\* app.py:30
OI_INTERVALS_MIN == <<10, 15, 30>>

\* oi_tracker.py:257
OI_CHANGE_INTERVALS_MIN == <<5, 10, 15, 30>>

\* for candle in reversed(candles): if candle_time <= target_time: ...; break
\* The position of the candle the loop stops at, 0 when it runs to the end.
RECURSIVE ScanBack(_, _, _)
ScanBack(candles, target_time, i) ==
    IF i = 0 THEN 0
    ELSE IF candles[i].t <= target_time THEN i
    ELSE ScanBack(candles, target_time, i - 1)

\* round(x, 2) of x = n / d percent, in hundredths of a percent
PyRound2(n, d) == PyRound(100 * n, d)

\* The percentage taken relative to the latest OI instead of the past OI.
calculate_oi_change_by_latest(candles, latest_oi, now) ==
    [minutes \in Range(OI_INTERVALS_MIN) |->
        LET i == ScanBack(candles, now - minutes, Len(candles))
        IN  IF i # 0 /\ candles[i].oi > 0 /\ latest_oi > 0
            THEN PyNumber(PyRound2((latest_oi - candles[i].oi) * 100, latest_oi), 100)
            ELSE PyNumber(0, 1)]

\* The windows chained: each window measured from the past sample of the
\* next shorter window (the shortest one from the latest OI).
calculate_oi_change_chained(candles, latest_oi, now) ==
    [minutes \in Range(OI_INTERVALS_MIN) |->
        LET i == ScanBack(candles, now - minutes, Len(candles))
            shorter == {m \in Range(OI_INTERVALS_MIN) : m < minutes}
            previous == IF shorter = {} THEN 0
                        ELSE ScanBack(candles,
                                 now - (CHOOSE m \in shorter : \A n \in shorter : n <= m),
                                 Len(candles))
            base == IF previous = 0 THEN latest_oi ELSE candles[previous].oi
        IN  IF i # 0 /\ candles[i].oi > 0
            THEN PyNumber(PyRound2((base - candles[i].oi) * 100, candles[i].oi), 100)
            ELSE PyNumber(0, 1)]

\* app.py: calculate_oi_change(candles, latest_oi); now is datetime.now()
calculate_oi_change(candles, latest_oi, now) ==
    [minutes \in Range(OI_INTERVALS_MIN) |->
        LET i == ScanBack(candles, now - minutes, Len(candles))
        IN  IF i # 0 /\ candles[i].oi > 0
            THEN PyNumber(PyRound2((latest_oi - candles[i].oi) * 100, candles[i].oi), 100)
            ELSE PyNumber(0, 1)]

\* logic.py, tracker_logic.py, oi_tracker.py (CLI): calculate_oi_change(initial_oi, current_oi)
\* initial_oi and current_oi are PyNone or numbers with den = 1.
logic_calculate_oi_change(initial_oi, current_oi) ==
    IF initial_oi.kind = "None" \/ current_oi.kind = "None" \/ initial_oi.num = 0
    THEN PyNumber(0, 1)
    ELSE PyNumber((current_oi.num - initial_oi.num) * 100, initial_oi.num)

\* oi_tracker.py (Kite): find_oi_at_timestamp(historical_candles, target_time, latest_oi_and_time)
RECURSIVE find_oi_at_timestamp(_, _, _, _)
find_oi_at_timestamp(historical_candles, target_time, latest_oi_timestamp, i) ==
    IF i = 0 THEN PyNone
    ELSE IF /\ historical_candles[i].t <= target_time
            /\ ~(historical_candles[i].t > latest_oi_timestamp)
         THEN PyNumber(historical_candles[i].oi, 1)
         ELSE find_oi_at_timestamp(historical_candles, target_time,
                                   latest_oi_timestamp, i - 1)

\* oi_tracker.py (Kite): calculate_oi_differences, for the candles of one contract
calculate_oi_differences(candles_list, current_processing_time) ==
    IF candles_list = << >>
    THEN [latest_oi |-> PyNone, latest_oi_timestamp |-> PyNone,
          pct_diff |-> [interval \in Range(OI_CHANGE_INTERVALS_MIN) |-> PyNone]]
    ELSE LET latest_candle == candles_list[Len(candles_list)]
             latest_oi == latest_candle.oi
         IN  [latest_oi |-> PyNumber(latest_oi, 1),
              latest_oi_timestamp |-> PyNumber(latest_candle.t, 1),
              pct_diff |->
                [interval \in Range(OI_CHANGE_INTERVALS_MIN) |->
                    LET past_oi == find_oi_at_timestamp(candles_list,
                                       current_processing_time - interval,
                                       latest_candle.t, Len(candles_list))
                    IN  IF past_oi.kind # "None" /\ past_oi.num # 0
                        THEN PyNumber((latest_oi - past_oi.num) * 100, past_oi.num)
                        ELSE PyNone]]

\* oi_tracker.py (Kite): generate_options_tables, the text of a change cell:
\* f"{pct_oi_change:+.2f}%", kept as hundredths of a percent, or "N/A"
formatted_pct_str(pct_oi_change) ==
    IF pct_oi_change.kind = "None" THEN PyNone
    ELSE PyNumber(PyRound2(pct_oi_change.num, pct_oi_change.den), 100)

\* logic.py:68
time_intervals == <<3, 5, 10, 15, 30>>

\* logic.py:73, pandas: df.index.get_indexer([target_time], method='nearest') on the index
\* of a frame ordered by timestamp, unique values: the position of the value
\* nearest to the target, a tie going to the larger value
get_indexer_nearest(index, target_time) ==
    CHOOSE i \in DOMAIN index :
        \A j \in DOMAIN index :
            \/ Abs(index[i] - target_time) < Abs(index[j] - target_time)
            \/ /\ Abs(index[i] - target_time) = Abs(index[j] - target_time)
               /\ index[i] >= index[j]

\* logic.py:70-75: the candle perform_oi_calculations takes as the past one
\* for minutes_ago; datapoints are the rows (timestamp, oi), latest first
past_candle(datapoints, minutes_ago) ==
    LET current_candle == datapoints[1]
        target_time == current_candle.t - minutes_ago
        index == [i \in DOMAIN datapoints |-> datapoints[i].t]
    IN  datapoints[get_indexer_nearest(index, target_time)]

\* logic.py:49-83: perform_oi_calculations on the rows get_recent_oi_datapoints
\* returned: no result (fewer than two rows, or get_indexer raising on an
\* index with a repeated timestamp, which the except clause prints) or the
\* result row handed to store_oi_result
perform_oi_calculations(datapoints) ==
    IF Len(datapoints) < 2 THEN << >>
    ELSE IF \E i, j \in DOMAIN datapoints : i # j /\ datapoints[i].t = datapoints[j].t
    THEN << >>
    ELSE <<[minutes_ago \in Range(time_intervals) |->
              logic_calculate_oi_change(
                  PyNumber(past_candle(datapoints, minutes_ago).oi, 1),
                  PyNumber(datapoints[1].oi, 1))]>>

\* the list in reverse order (ORDER BY timestamp DESC of an ascending series)
Reversed(list) == [i \in DOMAIN list |-> list[Len(list) + 1 - i]]

----------------------------------------------------------------------------
(* Inputs of the change functions *)

MaxTimeIdx == 7     \* candle times are drawn from 0, 5, ..., 5 * MaxTimeIdx (minutes)
MaxCandles == 3     \* a drawn series holds 1..MaxCandles candles
MaxLag == 2         \* "now" is 0, 5, ..., 5 * MaxLag minutes after the latest candle

CandleTimes == {5 * k : k \in 0..MaxTimeIdx}

\* OI values: none, a level, a rise of 20 % from it (a fall of 16.67 % back)
OIValues == {0, 1000, 1200}

\* the candles of one contract, oldest first, one per minute stamp at most
RECURSIVE SeriesOver(_)
SeriesOver(times) ==
    IF times = << >> THEN {<< >>}
    ELSE {<<[t |-> Head(times), oi |-> v]>> \o rest :
              v \in OIValues, rest \in SeriesOver(Tail(times))}

CandleSeries ==
    UNION {SeriesOver(SetToAscending(T)) :
               T \in {S \in SUBSET CandleTimes : Cardinality(S) \in 1..MaxCandles}}

----------------------------------------------------------------------------
(* The change functions applied to drawn inputs *)

ChangeInit ==
    /\ \E candles \in CandleSeries, lag \in 0..MaxLag :
          args = [candles |-> candles, now |-> candles[Len(candles)].t + 5 * lag]
    /\ fn = "none"
    /\ ret = << >>
    /\ ProgramsInit

\* app.py, process_single_option: latest_oi = candles[-1][6]
Call_calculate_oi_change ==
    /\ fn = "none"
    /\ fn' = "calculate_oi_change"
    /\ ret' = calculate_oi_change(args.candles,
                  args.candles[Len(args.candles)].oi, args.now)
    /\ UNCHANGED <<args, programVars>>

\* logic.py: the change between two of the drawn OI values, or from no value
Call_logic_calculate_oi_change ==
    /\ fn = "none"
    /\ fn' = "logic_calculate_oi_change"
    /\ \E i \in 0..Len(args.candles) :
          LET initial_oi == IF i = 0 THEN PyNone ELSE PyNumber(args.candles[i].oi, 1)
              current_oi == PyNumber(args.candles[Len(args.candles)].oi, 1)
          IN  ret' = [initial_oi |-> initial_oi, current_oi |-> current_oi,
                      change |-> logic_calculate_oi_change(initial_oi, current_oi)]
    /\ UNCHANGED <<args, programVars>>

Call_calculate_oi_differences ==
    /\ fn = "none"
    /\ fn' = "calculate_oi_differences"
    /\ ret' = calculate_oi_differences(args.candles, args.now)
    /\ UNCHANGED <<args, programVars>>

\* the change cells generate_options_tables shows for calculate_oi_differences' report
Call_formatted_pct_str ==
    /\ fn = "none"
    /\ fn' = "formatted_pct_str"
    /\ LET report == calculate_oi_differences(args.candles, args.now)
       IN  ret' = [interval \in Range(OI_CHANGE_INTERVALS_MIN) |->
                      formatted_pct_str(report.pct_diff[interval])]
    /\ UNCHANGED <<args, programVars>>

\* The first call leaves the list it was given in reverse order.
Call_calculate_oi_change_first_reversing ==
    /\ fn = "none"
    /\ \E again \in {"calculate_oi_change", "calculate_oi_differences"} :
          /\ fn' = IF again = "calculate_oi_change" THEN "calculate_oi_change first"
                   ELSE "calculate_oi_differences first"
          /\ ret' = IF again = "calculate_oi_change"
                    THEN calculate_oi_change(args.candles,
                             args.candles[Len(args.candles)].oi, args.now)
                    ELSE calculate_oi_differences(args.candles, args.now).pct_diff
    /\ args' = [args EXCEPT !.candles = Reversed(args.candles)]
    /\ UNCHANGED programVars

\* the change calculation of app.py or of Kite run on the series; neither
\* writes to the list it reads (reversed(candles) is an iterator)
Call_calculate_oi_change_first ==
    /\ fn = "none"
    /\ \E again \in {"calculate_oi_change", "calculate_oi_differences"} :
          /\ fn' = IF again = "calculate_oi_change" THEN "calculate_oi_change first"
                   ELSE "calculate_oi_differences first"
          /\ ret' = IF again = "calculate_oi_change"
                    THEN calculate_oi_change(args.candles,
                             args.candles[Len(args.candles)].oi, args.now)
                    ELSE calculate_oi_differences(args.candles, args.now).pct_diff
    /\ UNCHANGED <<args, programVars>>

\* the same calculation run a second time on what the first run left
Call_calculate_oi_change_again ==
    /\ fn \in {"calculate_oi_change first", "calculate_oi_differences first"}
    /\ fn' = IF fn = "calculate_oi_change first" THEN "calculate_oi_change again"
             ELSE "calculate_oi_differences again"
    /\ ret' = [first |-> ret,
               second |-> IF fn = "calculate_oi_change first"
                          THEN calculate_oi_change(args.candles,
                                   args.candles[Len(args.candles)].oi, args.now)
                          ELSE calculate_oi_differences(args.candles, args.now).pct_diff]
    /\ UNCHANGED <<args, programVars>>

\* app.py:179-186: the past OI the loop over reversed(candles) finds for one window
Call_app_past_oi ==
    /\ fn = "none"
    /\ fn' = "app past_oi"
    /\ \E minutes \in Range(OI_INTERVALS_MIN) :
          LET target_time == args.now - minutes
              i == ScanBack(args.candles, target_time, Len(args.candles))
          IN  ret' = [minutes |-> minutes, target_time |-> target_time,
                      past_oi |-> IF i = 0 THEN PyNone
                                  ELSE PyNumber(args.candles[i].oi, 1)]
    /\ UNCHANGED <<args, programVars>>

\* oi_tracker.py:586-593 (Kite): the past OI find_oi_at_timestamp finds for one window
Call_find_oi_at_timestamp ==
    /\ fn = "none"
    /\ fn' = "find_oi_at_timestamp"
    /\ \E interval \in Range(OI_CHANGE_INTERVALS_MIN) :
          LET target_time == args.now - interval
          IN  ret' = [minutes |-> interval, target_time |-> target_time,
                      past_oi |-> find_oi_at_timestamp(args.candles, target_time,
                                      args.candles[Len(args.candles)].t,
                                      Len(args.candles))]
    /\ UNCHANGED <<args, programVars>>

\* logic.py:70-76: the past OI perform_oi_calculations takes for one window,
\* the rows being the drawn series, latest first
Call_past_candle ==
    /\ fn = "none"
    /\ fn' = "past_candle"
    /\ \E minutes_ago \in Range(time_intervals) :
          LET datapoints == Reversed(args.candles)
          IN  ret' = [minutes |-> minutes_ago,
                      target_time |-> datapoints[1].t - minutes_ago,
                      past_oi |-> PyNumber(past_candle(datapoints, minutes_ago).oi, 1)]
    /\ UNCHANGED <<args, programVars>>

ChangeNext ==
    \/ Call_calculate_oi_change
    \/ Call_calculate_oi_change_first
    \/ Call_calculate_oi_change_again
    \/ Call_app_past_oi
    \/ Call_find_oi_at_timestamp
    \/ Call_past_candle
    \/ Call_logic_calculate_oi_change
    \/ Call_calculate_oi_differences
    \/ Call_formatted_pct_str

SpecChange == ChangeInit /\ [][ChangeNext]_vars

----------------------------------------------------------------------------
(* ThresholdEvaluator / AlertAggregator *)

\* abs(value) > threshold, for a number num / den
Exceeds(value, threshold) == Abs(value.num) > threshold * value.den

\* app.py:259-261, 267-269: the literals 10, 15, 25 for chg_10m, chg_15m, chg_30m
APP_THRESHOLDS == (10 :> 10) @@ (15 :> 15) @@ (30 :> 25)

\* oi_tracker.py:263-268
PCT_CHANGE_THRESHOLDS == (5 :> 8) @@ (10 :> 10) @@ (15 :> 15) @@ (30 :> 25)

\* oi_tracker.py:236
OPTIONS_COUNT == 5

\* An instrument key is [strike, side], side "CE" or "PE".  An optional value
\* (call_options, a result that may be None) is a sequence of length 0 or 1.
InstrumentKey(strike, side) == [strike |-> strike, side |-> side]

\* app.py: process_single_option(option_data, strike_price); fetch[key] are the
\* candles get_historical_oi returns for the key, << >> when the fetch failed
process_single_option(option_data, strike_price, fetch, now) ==
    IF option_data = << >> THEN << >>
    ELSE LET candles == fetch[option_data[1]]
         IN  IF candles = << >> THEN << >>
             ELSE <<[strike |-> strike_price,
                     chg |-> calculate_oi_change(candles, candles[Len(candles)].oi, now)]>>

\* app.py:259-261: the cells of one result row that are counted as highlighted
RowHighlights(result) ==
    IF result = << >> THEN 0
    ELSE Cardinality({minutes \in Range(OI_INTERVALS_MIN) :
                         Exceeds(result[1].chg[minutes], APP_THRESHOLDS[minutes])})

\* app.py:252-269: for strike_data in option_chain, from position i on
RECURSIVE ProcessChain(_, _, _, _, _, _)
ProcessChain(option_chain, i, wanted, fetch, now, acc) ==
    IF i > Len(option_chain) THEN acc
    ELSE LET strike_data == option_chain[i]
         IN  IF strike_data.strike_price \notin wanted
             THEN ProcessChain(option_chain, i + 1, wanted, fetch, now, acc)
             ELSE LET call_result == process_single_option(strike_data.call_options,
                                         strike_data.strike_price, fetch, now)
                      put_result == process_single_option(strike_data.put_options,
                                         strike_data.strike_price, fetch, now)
                  IN  ProcessChain(option_chain, i + 1, wanted, fetch, now,
                          [calls |-> acc.calls \o call_result,
                           puts |-> acc.puts \o put_result,
                           highlighted_cells |-> acc.highlighted_cells
                               + RowHighlights(call_result) + RowHighlights(put_result)])

\* app.py:244-276: the band, the rows, the counters and the alert of one cycle
ProcessContracts(atm_strike, option_chain, fetch, now) ==
    LET wanted == Range(strikes_to_fetch(atm_strike))
        total_cells == Len(strikes_to_fetch(atm_strike)) * Len(OI_INTERVALS_MIN) * 2
        acc == ProcessChain(option_chain, 1, wanted, fetch, now,
                            [calls |-> << >>, puts |-> << >>, highlighted_cells |-> 0])
    IN  [calls |-> acc.calls, puts |-> acc.puts,
         highlighted_cells |-> acc.highlighted_cells,
         total_cells |-> total_cells,
         alert |-> /\ ~(acc.calls = << >> /\ acc.puts = << >>)
                   /\ total_cells > 0
                   /\ 2 * acc.highlighted_cells > total_cells]

\* oi_tracker.py (Kite): get_relevant_option_details; listed is the set of
\* instrument keys of the instruments list for the expiry.  The result maps
\* <<i, "ce">> and <<i, "pe">>, i the distance from the ATM in strikes, to
\* the contract found.
get_relevant_option_details(listed, atm_strike_val) ==
    LET offsets == (-OPTIONS_COUNT)..OPTIONS_COUNT
        Key(i, side) == InstrumentKey(atm_strike_val + i * STRIKE_DIFFERENCE, side)
        found == {<<i, "ce">> : i \in {j \in offsets : Key(j, "CE") \in listed}}
                 \cup {<<i, "pe">> : i \in {j \in offsets : Key(j, "PE") \in listed}}
    IN  [option_key \in found |->
            [strike |-> atm_strike_val + option_key[1] * STRIKE_DIFFERENCE,
             instrument_token |-> Key(option_key[1],
                                      IF option_key[2] = "ce" THEN "CE" ELSE "PE")]]

\* oi_tracker.py (Kite): fetch_historical_oi_data, then calculate_oi_differences
\* over every contract of the store
oi_change_data(option_contract_details, fetch, now) ==
    [option_key \in DOMAIN option_contract_details |->
        calculate_oi_differences(fetch[option_contract_details[option_key].instrument_token],
                                 now)]

\* oi_tracker.py (Kite): generate_options_tables: the rows of one table
TableRows(oi_report, contract_details, current_atm_strike, side) ==
    [k \in 1..(2 * OPTIONS_COUNT + 1) |->
        LET i == k - 1 - OPTIONS_COUNT
            option_key == <<i, side>>
            pct(interval) == IF option_key \in DOMAIN oi_report
                             THEN oi_report[option_key].pct_diff[interval]
                             ELSE PyNone
        IN  [strike |-> IF option_key \in DOMAIN contract_details
                        THEN contract_details[option_key].strike
                        ELSE current_atm_strike + i * STRIKE_DIFFERENCE,
             latest_oi |-> IF option_key \in DOMAIN oi_report
                           THEN oi_report[option_key].latest_oi ELSE PyNone,
             cells |-> [interval \in Range(OI_CHANGE_INTERVALS_MIN) |->
                          [text |-> formatted_pct_str(pct(interval)),
                           red |-> /\ pct(interval).kind # "None"
                                   /\ interval \in DOMAIN PCT_CHANGE_THRESHOLDS
                                   /\ Exceeds(pct(interval),
                                              PCT_CHANGE_THRESHOLDS[interval])]]]]

\* the cells of a table, and those styled red
CellCount(rows) == Len(rows) * Len(OI_CHANGE_INTERVALS_MIN)

RedCount(rows) ==
    Cardinality({<<k, interval>> \in (DOMAIN rows) \X Range(OI_CHANGE_INTERVALS_MIN) :
                    rows[k].cells[interval].red})

\* The siren decided on all cells of both tables together.
generate_options_tables_whole(oi_report, contract_details, current_atm_strike) ==
    LET call_table == TableRows(oi_report, contract_details, current_atm_strike, "ce")
        put_table == TableRows(oi_report, contract_details, current_atm_strike, "pe")
    IN  [call_table |-> call_table, put_table |-> put_table,
         total_call_threshold_breached |-> RedCount(call_table),
         total_call_cells |-> CellCount(call_table),
         total_put_threshold_breached |-> RedCount(put_table),
         total_put_cells |-> CellCount(put_table),
         alert |-> 2 * (RedCount(call_table) + RedCount(put_table))
                       > CellCount(call_table) + CellCount(put_table)]

\* oi_tracker.py (Kite): generate_options_tables: both tables, the counters and
\* whether the siren is played (line 749)
generate_options_tables(oi_report, contract_details, current_atm_strike) ==
    LET call_table == TableRows(oi_report, contract_details, current_atm_strike, "ce")
        put_table == TableRows(oi_report, contract_details, current_atm_strike, "pe")
    IN  [call_table |-> call_table, put_table |-> put_table,
         total_call_threshold_breached |-> RedCount(call_table),
         total_call_cells |-> CellCount(call_table),
         total_put_threshold_breached |-> RedCount(put_table),
         total_put_cells |-> CellCount(put_table),
         alert |-> \/ 2 * RedCount(put_table) > CellCount(put_table)
                   \/ 2 * RedCount(call_table) > CellCount(call_table)]

----------------------------------------------------------------------------
(* Inputs of the aggregators: what the data source answers in one cycle *)

MaxGridIdx == 12    \* the exchange lists the strikes 50, 100, ..., 50 * MaxGridIdx

GridStrikes == {STRIKE_DIFFERENCE * k : k \in 1..MaxGridIdx}

AllInstruments == {InstrumentKey(s, side) : s \in GridStrikes, side \in {"CE", "PE"}}

\* The instruments the data source lists, by the name of a listing.
ListedInstruments(listing) ==
    CASE listing = "full" -> AllInstruments
      [] listing = "no_call_300" -> AllInstruments \ {InstrumentKey(300, "CE")}
      [] listing = "far" -> {k \in AllInstruments : k.strike = 600}
      [] listing = "low" -> {k \in AllInstruments : k.strike <= 200}

\* The option chain of app.py: one strike_data per listed strike, ascending.
OptionChain(listed) ==
    LET strikes == SetToAscending({k.strike : k \in listed})
        Option(s, side) == IF InstrumentKey(s, side) \in listed
                           THEN <<InstrumentKey(s, side)>> ELSE << >>
    IN  [i \in 1..Len(strikes) |->
            [strike_price |-> strikes[i],
             call_options |-> Option(strikes[i], "CE"),
             put_options |-> Option(strikes[i], "PE")]]

\* The candles the data source returns for one instrument at time now, by the
\* name of a case; "failed" is a fetch that raised or returned nothing,
\* "malformed" a candle list whose last candle has no OI field.
CaseCandles(case, now) ==
    CASE case = "rise50" -> <<[t |-> now - 30, oi |-> 1000], [t |-> now, oi |-> 1500]>>
      [] case = "fall33" -> <<[t |-> now - 30, oi |-> 1500], [t |-> now, oi |-> 1000]>>
      [] case = "rise20" -> <<[t |-> now - 30, oi |-> 1000], [t |-> now, oi |-> 1200]>>
      [] case = "rise10" -> <<[t |-> now - 30, oi |-> 1000], [t |-> now, oi |-> 1100]>>
      [] case = "flat" -> <<[t |-> now - 30, oi |-> 1000], [t |-> now, oi |-> 1000]>>
      [] case = "new" -> <<[t |-> now, oi |-> 1000]>>
      [] case = "failed" -> << >>
      [] case = "malformed" -> <<[t |-> now]>>

HotCases == {"rise50", "fall33", "rise20"}
ColdCases == {"flat", "rise10", "new", "failed"}

\* One answer of the data source: the price, the listing, and the candles of
\* every instrument: the calls below call_cut and the puts below put_cut move
\* as the hot case, all others as the cold case.
Answers(prices, listings, cuts, hots, colds) ==
    [ltp : prices, listing : listings, call_cut : cuts, put_cut : cuts,
     hot : hots, cold : colds]

FetchOf(answer, now) ==
    [k \in AllInstruments |->
        IF \/ k.side = "CE" /\ k.strike < answer.call_cut
           \/ k.side = "PE" /\ k.strike < answer.put_cut
        THEN CaseCandles(answer.hot, now)
        ELSE CaseCandles(answer.cold, now)]

GridNow == 30
GridPrices == {300, 340}
GridCuts == {STRIKE_DIFFERENCE * k : k \in 1..(MaxGridIdx + 1)}

----------------------------------------------------------------------------
(* The aggregators applied to one answer of the data source *)

GridInit ==
    /\ args \in Answers(GridPrices, {"full", "no_call_300", "far"}, GridCuts,
                        HotCases, ColdCases)
    /\ fn = "none"
    /\ ret = << >>
    /\ ProgramsInit

Call_ProcessContracts ==
    /\ fn = "none"
    /\ fn' = "ProcessContracts"
    /\ ret' = ProcessContracts(get_atm_strike(args.ltp),
                               OptionChain(ListedInstruments(args.listing)),
                               FetchOf(args, GridNow), GridNow)
    /\ UNCHANGED <<args, programVars>>

Call_generate_options_tables ==
    /\ fn = "none"
    /\ fn' = "generate_options_tables"
    /\ LET current_atm_strike == get_atm_strike(args.ltp)
           option_contract_details ==
               get_relevant_option_details(ListedInstruments(args.listing),
                                           current_atm_strike)
       IN  /\ DOMAIN option_contract_details # {}
           /\ ret' = generate_options_tables(
                      oi_change_data(option_contract_details,
                                     FetchOf(args, GridNow), GridNow),
                      option_contract_details, current_atm_strike)
    /\ UNCHANGED <<args, programVars>>

GridNext ==
    \/ Call_ProcessContracts
    \/ Call_generate_options_tables

SpecGrid == GridInit /\ [][GridNext]_vars

----------------------------------------------------------------------------
(* app.py: the update cycle, one step per write to app_state, run by the   *)
(* main thread once and then by the scheduler thread; and GET /status      *)

MaxClock == 2       \* the programs run while the clock is below MaxClock minutes

AppPrices == {300}
AppListings == {"full", "far"}
AppFetches == [call_cut : {50}, put_cut : {50}, hot : {"rise50"},
               cold : {"flat", "failed"}]
                 \cup [call_cut : {400, 650}, put_cut : {650}, hot : {"rise50"},
                       cold : {"failed"}]
                 \cup [call_cut : {400}, put_cut : {650}, hot : {"rise50"},
                       cold : {"malformed"}]

AppUnchangedOthers == UNCHANGED <<harnessVars, kiteVars, cliVars, workerVars>>

\* a step of update_data_in_background in thread self, from label from to label to
CycleStep(self, from, to) ==
    /\ app_pc[self] = from
    /\ app_pc' = [app_pc EXCEPT ![self] = to]
    /\ UNCHANGED <<readerVars, clock>>
    /\ AppUnchangedOthers

\* update_data_in_background returns in thread self: its locals are gone
FrameReturn(self) ==
    /\ app_atm_strike' = [app_atm_strike EXCEPT ![self] = PyNone]
    /\ app_option_chain' = [app_option_chain EXCEPT ![self] = << >>]
    /\ app_candles' = [app_candles EXCEPT ![self] = << >>]

\* app.py:223
AppSetWorking(self) ==
    /\ CycleStep(self, "update_data_in_background", "L224")
    /\ app_state' = [app_state EXCEPT !.status = "Working"]
    /\ UNCHANGED <<app_atm_strike, app_option_chain, app_candles>>

\* app.py:224
AppSetMessageFetching(self) ==
    /\ CycleStep(self, "L224", "get_atm_strike")
    /\ app_state' = [app_state EXCEPT !.message = "Fetching live market data..."]
    /\ UNCHANGED <<app_atm_strike, app_option_chain, app_candles>>

\* app.py:228, then 233 and 238: the price and the expiry are fetched
AppGetAtmStrike(self) ==
    /\ CycleStep(self, "get_atm_strike", "get_option_chain")
    /\ \E ltp \in AppPrices :
          app_atm_strike' = [app_atm_strike EXCEPT ![self] = PyNumber(get_atm_strike(ltp), 1)]
    /\ app_state' = [app_state EXCEPT !.message = "Fetching option chain for expiry..."]
    /\ UNCHANGED <<app_option_chain, app_candles>>

\* The failed price fetch clears the published result.
AppGetAtmStrikeFails_clearing(self) ==
    /\ CycleStep(self, "get_atm_strike", "return")
    /\ app_state' = [app_state EXCEPT !.status = "Error",
                         !.message = "Could not determine ATM strike.",
                         !.data = << >>]
    /\ FrameReturn(self)

\* app.py:228-231: get_atm_strike returned None
AppGetAtmStrikeFails(self) ==
    /\ CycleStep(self, "get_atm_strike", "return")
    /\ app_state' = [app_state EXCEPT !.status = "Error",
                         !.message = "Could not determine ATM strike."]
    /\ FrameReturn(self)

\* app.py:228, then 233-236: get_nearest_weekly_expiry returned None
AppGetExpiryFails(self) ==
    /\ CycleStep(self, "get_atm_strike", "return")
    /\ \E ltp \in AppPrices : get_atm_strike(ltp) # 0
    /\ app_state' = [app_state EXCEPT !.status = "Error",
                         !.message = "Could not automatically determine the nearest expiry date."]
    /\ FrameReturn(self)

\* The chain is fetched before the price.
AppGetOptionChain_before_price(self) ==
    /\ CycleStep(self, "get_atm_strike", "process")
    /\ \E listing \in AppListings :
          app_option_chain' = [app_option_chain EXCEPT ![self] =
                                  OptionChain(ListedInstruments(listing))]
    /\ app_state' = [app_state EXCEPT !.message = "Processing contracts..."]
    /\ UNCHANGED <<app_atm_strike, app_candles>>

\* app.py:239, then 244-250: the chain is fetched
AppGetOptionChain(self) ==
    /\ CycleStep(self, "get_option_chain", "process")
    /\ \E listing \in AppListings :
          app_option_chain' = [app_option_chain EXCEPT ![self] =
                                  OptionChain(ListedInstruments(listing))]
    /\ app_state' = [app_state EXCEPT !.message = "Processing contracts..."]
    /\ UNCHANGED <<app_atm_strike, app_candles>>

\* The failed chain fetch returns with the status left as it was.
AppGetOptionChainFails_keeping_status(self) ==
    /\ CycleStep(self, "get_option_chain", "return")
    /\ app_state' = [app_state EXCEPT
                         !.message = "Could not fetch option chain for expiry."]
    /\ FrameReturn(self)

\* app.py:239-242: get_option_chain returned None or an empty chain
AppGetOptionChainFails(self) ==
    /\ CycleStep(self, "get_option_chain", "return")
    /\ app_state' = [app_state EXCEPT !.status = "Error",
                         !.message = "Could not fetch option chain for expiry."]
    /\ FrameReturn(self)

\* the instruments update_data_in_background passes to process_single_option
\* (app.py:254-264): those of the chain whose strike is in strikes_to_fetch
ProcessedInstruments(atm_strike, option_chain) ==
    {k \in AllInstruments :
        /\ k.strike \in Range(strikes_to_fetch(atm_strike))
        /\ \E i \in DOMAIN option_chain :
              /\ option_chain[i].strike_price = k.strike
              /\ <<k>> = IF k.side = "CE" THEN option_chain[i].call_options
                         ELSE option_chain[i].put_options}

\* app.py:210: latest_oi = candles[-1][6] raises IndexError on a candle
\* without an OI field
Raises(candles) ==
    candles # << >> /\ "oi" \notin DOMAIN candles[Len(candles)]

\* app.py:252-269: process_single_option raises for one of the contracts
ProcessRaises(atm_strike, option_chain, fetch) ==
    \E k \in ProcessedInstruments(atm_strike, option_chain) : Raises(fetch[k])

\* The result is stored before its alert is computed.
AppPublishData_without_alert(self) ==
    /\ CycleStep(self, "process", "L277")
    /\ \E f \in AppFetches :
          LET fetch == FetchOf(f, clock)
              processed_data == ProcessContracts(app_atm_strike[self].num,
                                    app_option_chain[self], fetch, clock)
          IN  /\ ~ProcessRaises(app_atm_strike[self].num, app_option_chain[self], fetch)
              /\ ~(processed_data.calls = << >> /\ processed_data.puts = << >>)
              /\ app_candles' = [app_candles EXCEPT ![self] =
                    [k \in ProcessedInstruments(app_atm_strike[self].num,
                                                app_option_chain[self]) |-> fetch[k]]]
              /\ app_state' = [app_state EXCEPT !.data =
                                  <<[calls |-> processed_data.calls,
                                     puts |-> processed_data.puts,
                                     alert |-> FALSE]>>]
    /\ UNCHANGED <<app_atm_strike, app_option_chain>>

\* The alert, once raised, stays raised in the results of later cycles.
AppPublishData_sticky_alert(self) ==
    /\ CycleStep(self, "process", "L277")
    /\ \E f \in AppFetches :
          LET fetch == FetchOf(f, clock)
              processed_data == ProcessContracts(app_atm_strike[self].num,
                                    app_option_chain[self], fetch, clock)
          IN  /\ ~ProcessRaises(app_atm_strike[self].num, app_option_chain[self], fetch)
              /\ ~(processed_data.calls = << >> /\ processed_data.puts = << >>)
              /\ app_candles' = [app_candles EXCEPT ![self] =
                    [k \in ProcessedInstruments(app_atm_strike[self].num,
                                                app_option_chain[self]) |-> fetch[k]]]
              /\ app_state' = [app_state EXCEPT !.data =
                                  <<[calls |-> processed_data.calls,
                                     puts |-> processed_data.puts,
                                     alert |-> \/ processed_data.alert
                                               \/ /\ app_state.data # << >>
                                                  /\ app_state.data[1].alert]>>]
    /\ UNCHANGED <<app_atm_strike, app_option_chain>>

\* app.py:252-269, then 274-276: the contracts are processed and the result
\* is stored in app_state["data"]
AppPublishData(self) ==
    /\ CycleStep(self, "process", "L277")
    /\ \E f \in AppFetches :
          LET fetch == FetchOf(f, clock)
              processed_data == ProcessContracts(app_atm_strike[self].num,
                                    app_option_chain[self], fetch, clock)
          IN  /\ ~ProcessRaises(app_atm_strike[self].num, app_option_chain[self], fetch)
              /\ ~(processed_data.calls = << >> /\ processed_data.puts = << >>)
              /\ app_candles' = [app_candles EXCEPT ![self] =
                    [k \in ProcessedInstruments(app_atm_strike[self].num,
                                                app_option_chain[self]) |-> fetch[k]]]
              /\ app_state' = [app_state EXCEPT !.data =
                                  <<[calls |-> processed_data.calls,
                                     puts |-> processed_data.puts,
                                     alert |-> processed_data.alert]>>]
    /\ UNCHANGED <<app_atm_strike, app_option_chain>>

\* The cycle without rows clears the published result.
AppNoRows_clearing(self) ==
    /\ CycleStep(self, "process", "return")
    /\ \E f \in AppFetches :
          LET processed_data == ProcessContracts(app_atm_strike[self].num,
                                    app_option_chain[self], FetchOf(f, clock), clock)
          IN  /\ ~ProcessRaises(app_atm_strike[self].num, app_option_chain[self],
                                FetchOf(f, clock))
              /\ processed_data.calls = << >> /\ processed_data.puts = << >>
    /\ app_state' = [app_state EXCEPT !.status = "Warning",
                         !.message = "Data fetched, but no matching option contracts were found for the required strikes.",
                         !.data = << >>]
    /\ FrameReturn(self)

\* app.py:252-269, then 271-272: no contract gave a row
AppNoRows(self) ==
    /\ CycleStep(self, "process", "return")
    /\ \E f \in AppFetches :
          LET processed_data == ProcessContracts(app_atm_strike[self].num,
                                    app_option_chain[self], FetchOf(f, clock), clock)
          IN  /\ ~ProcessRaises(app_atm_strike[self].num, app_option_chain[self],
                                FetchOf(f, clock))
              /\ processed_data.calls = << >> /\ processed_data.puts = << >>
    /\ app_state' = [app_state EXCEPT !.status = "Warning",
                         !.message = "Data fetched, but no matching option contracts were found for the required strikes."]
    /\ FrameReturn(self)

\* The handler of an exception clears the published result.
AppCriticalError_clearing(self) ==
    /\ CycleStep(self, "process", "return")
    /\ \E f \in AppFetches :
          ProcessRaises(app_atm_strike[self].num, app_option_chain[self], FetchOf(f, clock))
    /\ app_state' = [app_state EXCEPT !.status = "Error",
                         !.message = "A critical error occurred during the data update cycle.",
                         !.data = << >>]
    /\ FrameReturn(self)

\* app.py:252-269, then 282-284: an exception raised while a contract is
\* processed (a malformed candle) is caught by the handler of the cycle
AppCriticalError(self) ==
    /\ CycleStep(self, "process", "return")
    /\ \E f \in AppFetches :
          ProcessRaises(app_atm_strike[self].num, app_option_chain[self], FetchOf(f, clock))
    /\ app_state' = [app_state EXCEPT !.status = "Error",
                         !.message = "A critical error occurred during the data update cycle."]
    /\ FrameReturn(self)

\* app.py:277
AppSetOK(self) ==
    /\ CycleStep(self, "L277", "L278")
    /\ app_state' = [app_state EXCEPT !.status = "OK"]
    /\ UNCHANGED <<app_atm_strike, app_option_chain, app_candles>>

\* app.py:278
AppSetMessageLive(self) ==
    /\ CycleStep(self, "L278", "L279")
    /\ app_state' = [app_state EXCEPT !.message = "Dashboard is live."]
    /\ UNCHANGED <<app_atm_strike, app_option_chain, app_candles>>

\* app.py:279
AppSetLastUpdated(self) ==
    /\ CycleStep(self, "L279", "return")
    /\ app_state' = [app_state EXCEPT !.last_updated = PyNumber(clock, 1)]
    /\ FrameReturn(self)

\* The scheduler thread is started before the first update has run.
AppStartScheduler_first ==
    /\ app_pc["main"] = "update_data_in_background"
    /\ app_pc["scheduler"] = "not started"
    /\ app_pc' = [app_pc EXCEPT !["scheduler"] = "update_data_in_background"]
    /\ UNCHANGED <<app_state, app_atm_strike, app_option_chain, app_candles,
                   readerVars, clock>>
    /\ AppUnchangedOthers

\* app.py:321-329: the first update has returned; __main__ starts the
\* scheduler thread, which calls update_data_in_background at once
\* (line 289), and runs the Flask application
AppStartScheduler ==
    /\ app_pc["main"] = "return"
    /\ app_pc["scheduler"] = "not started"
    /\ app_pc' = [app_pc EXCEPT !["main"] = "app.run",
                                !["scheduler"] = "update_data_in_background"]
    /\ UNCHANGED <<app_state, app_atm_strike, app_option_chain, app_candles,
                   readerVars, clock>>
    /\ AppUnchangedOthers

\* The scheduler loop goes on only after a cycle that did not fail.
AppSleep_unless_failed ==
    /\ app_pc["scheduler"] = "return"
    /\ app_state.status # "Error"
    /\ clock + 1 < MaxClock
    /\ clock' = clock + 1
    /\ app_pc' = [app_pc EXCEPT !["scheduler"] = "update_data_in_background"]
    /\ UNCHANGED <<app_state, app_atm_strike, app_option_chain, app_candles, readerVars>>
    /\ AppUnchangedOthers

\* app.py:286-290: background_scheduler sleeps, then runs the next update
AppSleep ==
    /\ app_pc["scheduler"] = "return"
    /\ clock + 1 < MaxClock
    /\ clock' = clock + 1
    /\ app_pc' = [app_pc EXCEPT !["scheduler"] = "update_data_in_background"]
    /\ UNCHANGED <<app_state, app_atm_strike, app_option_chain, app_candles, readerVars>>
    /\ AppUnchangedOthers

CycleNext ==
    \/ \E self \in Threads :
          \/ AppSetWorking(self)
          \/ AppSetMessageFetching(self)
          \/ AppGetAtmStrike(self)
          \/ AppGetAtmStrikeFails(self)
          \/ AppGetExpiryFails(self)
          \/ AppGetOptionChain(self)
          \/ AppGetOptionChainFails(self)
          \/ AppPublishData(self)
          \/ AppNoRows(self)
          \/ AppCriticalError(self)
          \/ AppSetOK(self)
          \/ AppSetMessageLive(self)
          \/ AppSetLastUpdated(self)
    \/ AppStartScheduler
    \/ AppSleep

\* a step of status_endpoint, from label from to label to
ReaderStep(from, to) ==
    /\ reader_pc = from
    /\ reader_pc' = to
    /\ UNCHANGED <<app_state, cycleVars, clock>>
    /\ AppUnchangedOthers

\* app.py:301-302: a GET /status request arrives while the Flask application runs
ReaderBegin ==
    /\ app_pc["main"] = "app.run"
    /\ ReaderStep("idle", "L307")
    /\ UNCHANGED response

\* app.py:307
ReaderGetStatus ==
    /\ ReaderStep("L307", "L308")
    /\ response' = <<[status |-> app_state.status, message |-> "",
                      data |-> << >>, last_updated |-> PyNone]>>

\* app.py:308
ReaderGetMessage ==
    /\ ReaderStep("L308", "L309")
    /\ response' = <<[response[1] EXCEPT !.message = app_state.message]>>

\* app.py:309
ReaderGetData ==
    /\ ReaderStep("L309", "L310 if")
    /\ response' = <<[response[1] EXCEPT !.data = app_state.data]>>

\* app.py:310: the condition of the conditional expression
ReaderTestLastUpdated ==
    /\ reader_pc = "L310 if"
    /\ reader_pc' = IF app_state.last_updated.kind # "None" THEN "L310 strftime"
                    ELSE "jsonify"
    /\ UNCHANGED <<response, app_state, cycleVars, clock>>
    /\ AppUnchangedOthers

\* app.py:310: app_state["last_updated"].strftime('%H:%M:%S')
ReaderGetLastUpdated ==
    /\ ReaderStep("L310 strftime", "jsonify")
    /\ response' = <<[response[1] EXCEPT !.last_updated = app_state.last_updated]>>

\* app.py:306: jsonify(...) is returned to the client
ReaderReturn ==
    /\ ReaderStep("jsonify", "idle")
    /\ response' = << >>

ReaderNext ==
    \/ ReaderBegin
    \/ ReaderGetStatus
    \/ ReaderGetMessage
    \/ ReaderGetData
    \/ ReaderTestLastUpdated
    \/ ReaderGetLastUpdated
    \/ ReaderReturn

AppNext ==
    \/ CycleNext
    \/ ReaderNext

----------------------------------------------------------------------------
(* Kite (oi_tracker.py:193-915): main's live update loop *)

KitePrices == {300}
KiteListings == {"full", "far"}
KiteFetches == [call_cut : {50, 650}, put_cut : {50, 650}, hot : {"rise50"},
                cold : {"flat"}]

KiteUnchangedOthers == UNCHANGED <<harnessVars, appVars, cliVars, workerVars>>

\* oi_tracker.py:845-870: the instruments are fetched once, then the loop starts
KiteStartup ==
    /\ kite_pc = "main"
    /\ \E listing \in KiteListings :
          nfo_instruments' = ListedInstruments(listing)
    /\ kite_pc' = "run_analysis_iteration"
    /\ UNCHANGED <<display_content, live, clock>>
    /\ KiteUnchangedOthers

\* oi_tracker.py:773-777: get_atm_strike returned None
KiteIterationAtmFails ==
    /\ kite_pc = "run_analysis_iteration"
    /\ display_content' = Panel("Error: Could not determine ATM strike.", "Update Error")
    /\ kite_pc' = "live.update"
    /\ UNCHANGED <<nfo_instruments, live, clock>>
    /\ KiteUnchangedOthers

\* oi_tracker.py:785-794: no contract of the instrument list is near the ATM
KiteIterationNoContracts ==
    /\ kite_pc = "run_analysis_iteration"
    /\ \E ltp \in KitePrices :
          DOMAIN get_relevant_option_details(nfo_instruments, get_atm_strike(ltp)) = {}
    /\ display_content' = Panel("Warning: Could not retrieve relevant option contracts.",
                                "Update Warning")
    /\ kite_pc' = "live.update"
    /\ UNCHANGED <<nfo_instruments, live, clock>>
    /\ KiteUnchangedOthers

\* oi_tracker.py:773-809: the tables are generated
KiteIterationTables ==
    /\ kite_pc = "run_analysis_iteration"
    /\ \E ltp \in KitePrices, f \in KiteFetches :
          LET current_atm_strike == get_atm_strike(ltp)
              option_contract_details ==
                  get_relevant_option_details(nfo_instruments, current_atm_strike)
          IN  /\ DOMAIN option_contract_details # {}
              /\ display_content' = Group(generate_options_tables(
                     oi_change_data(option_contract_details, FetchOf(f, clock), clock),
                     option_contract_details, current_atm_strike))
    /\ kite_pc' = "live.update"
    /\ UNCHANGED <<nfo_instruments, live, clock>>
    /\ KiteUnchangedOthers

\* oi_tracker.py:884: live.update(display_content, refresh=True)
KiteLiveUpdate ==
    /\ kite_pc = "live.update"
    /\ live' = display_content
    /\ kite_pc' = "time.sleep"
    /\ UNCHANGED <<nfo_instruments, display_content, clock>>
    /\ KiteUnchangedOthers

\* oi_tracker.py:887: time.sleep(REFRESH_INTERVAL_SECONDS)
KiteSleep ==
    /\ kite_pc = "time.sleep"
    /\ clock + 1 < MaxClock
    /\ clock' = clock + 1
    /\ kite_pc' = "run_analysis_iteration"
    /\ UNCHANGED <<nfo_instruments, display_content, live>>
    /\ KiteUnchangedOthers

KiteNext ==
    \/ KiteStartup
    \/ KiteIterationAtmFails
    \/ KiteIterationNoContracts
    \/ KiteIterationTables
    \/ KiteLiveUpdate
    \/ KiteSleep

----------------------------------------------------------------------------
(* CLI (oi_tracker.py:1-191): main's loop, one step per pass of the loop *)

CliMaxClock == 33   \* the CLI runs while the clock is at most CliMaxClock minutes
MaxSamples == 4     \* the data source answers until a series holds MaxSamples samples

CliPrices == {60, 190}
CliOILevels == {1000, 1500}
CliListed == ListedInstruments("low")

\* oi_tracker.py:164-171: the changes of one entry of the store
StoreChanges(value, now) ==
    LET PastDataPoints(minutes_ago) ==
            LET AtOrBefore(d) == d.t <= now - minutes_ago
            IN  SelectSeq(value.data, AtOrBefore)
    IN  [minutes_ago \in {m \in {10, 15, 30} : PastDataPoints(m) # << >>} |->
            LET past_data_points == PastDataPoints(minutes_ago)
                initial_oi == past_data_points[Len(past_data_points)].oi
                current_oi == value.data[Len(value.data)].oi
            IN  logic_calculate_oi_change(PyNumber(initial_oi, 1), PyNumber(current_oi, 1))]

\* oi_tracker.py:161-172: table_data, keyed by strike, over the whole store
TableData(store, option_type, now) ==
    LET keys == {k \in DOMAIN store : store[k].type = option_type}
    IN  [strike \in {store[k].strike : k \in keys} |->
            StoreChanges(store[CHOOSE k \in keys : store[k].strike = strike], now)]

\* oi_tracker.py:80-104: create_oi_table(title, data, console): the rows
\* printed and the number of red cells returned
create_oi_table(data) ==
    LET thresholds == (10 :> 10) @@ (15 :> 15) @@ (30 :> 25)
        strikes == SetToAscending(DOMAIN data)
        Cell(changes, interval) ==
            LET change == IF interval \in DOMAIN changes THEN changes[interval]
                          ELSE PyNumber(0, 1)
            IN  [change |-> change,
                 red |-> change.num > thresholds[interval] * change.den]
        rows == [i \in 1..Len(strikes) |->
                    [strike |-> strikes[i],
                     cells |-> [interval \in DOMAIN thresholds |->
                                   Cell(data[strikes[i]], interval)]]]
    IN  [rows |-> rows,
         red_cell_count |-> Cardinality({<<i, interval>> \in (DOMAIN rows) \X (DOMAIN thresholds) :
                                            rows[i].cells[interval].red})]

CliUnchangedOthers == UNCHANGED <<harnessVars, appVars, kiteVars, workerVars>>

\* the lengths, in passes, of the runs of passes without a price or a chain
CliSkippedRuns == {8, 9, 29}

\* oi_tracker.py:127-135: get_ltp or get_option_chain gave nothing; the pass
\* sleeps and continues, for a run of passes
CliCycleSkipped ==
    /\ \E passes \in CliSkippedRuns :
          /\ clock + passes <= CliMaxClock
          /\ clock' = clock + passes
    /\ UNCHANGED cliVars
    /\ CliUnchangedOthers

\* oi_tracker.py:137
CliAllStrikes == SetToAscending({k.strike : k \in {j \in CliListed : j.side = "PE"}})

\* oi_tracker.py:138-139
CliRelevantStrikes ==
    [ltp \in CliPrices |->
        get_relevant_strikes(find_atm_strike(ltp, CliAllStrikes), CliAllStrikes)]

\* oi_tracker.py:127-181: a pass that fetches, stores, prints and sleeps
CliCycle ==
    /\ clock + 1 <= CliMaxClock
    /\ \E ltp \in CliPrices, latest_oi \in CliOILevels :
          LET relevant_strikes == CliRelevantStrikes[ltp]
              selected == {k \in CliListed : k.strike \in Range(relevant_strikes)}
              Entry(k) == IF k \in DOMAIN oi_data_store THEN oi_data_store[k]
                          ELSE [type |-> IF k.side = "CE" THEN "call" ELSE "put",
                                strike |-> k.strike, data |-> << >>]
          IN  /\ \A k \in selected : Len(Entry(k).data) < MaxSamples
              /\ oi_data_store' =
                    [k \in (DOMAIN oi_data_store) \cup selected |->
                        IF k \in selected
                        THEN [Entry(k) EXCEPT !.data =
                                 Append(@, [t |-> clock, oi |-> latest_oi])]
                        ELSE oi_data_store[k]]
              /\ LET call_table == create_oi_table(TableData(oi_data_store', "call", clock))
                     put_table == create_oi_table(TableData(oi_data_store', "put", clock))
                     total_red_cells == call_table.red_cell_count + put_table.red_cell_count
                     total_cells == Len(relevant_strikes) * 3 * 2
                 IN  /\ cli_cycle' = [relevant_strikes |-> relevant_strikes,
                                      total_red_cells |-> total_red_cells,
                                      total_cells |-> total_cells]
                     /\ screen' = [call |-> call_table.rows, put |-> put_table.rows,
                                   alert |-> total_cells > 0
                                             /\ 2 * total_red_cells > total_cells]
    /\ clock' = clock + 1
    /\ CliUnchangedOthers

CliNext ==
    \/ CliCycleSkipped
    \/ CliCycle

----------------------------------------------------------------------------
(* The worker (logic.py, database.py): update_tracked_instruments, one step *)
(* per call; its caller is not part of the repository's sources            *)

MaxWorkerClock == 3     \* the worker is called at the minutes 0 .. MaxWorkerClock - 1
MaxWorkerLag == 2       \* the latest candle is 0 .. MaxWorkerLag minutes old

\* the table instruments: every strike of the grid, a call and a put each
WorkerListed == ListedInstruments("full")

\* what the data source answers in one call of the worker: the price, the
\* age and the OI of the latest candle, and the strike from which on the
\* candle fetch fails (beyond the grid: no fetch fails)
WorkerNoFailure == STRIKE_DIFFERENCE * (MaxGridIdx + 2)
WorkerAnswers ==
    [ltp : {200}, lag : 0..MaxWorkerLag, oi : {1000, 1200}, fail_from : {WorkerNoFailure}]
      \cup [ltp : {450}, lag : {0}, oi : {1000}, fail_from : {WorkerNoFailure}]
      \cup [ltp : {200}, lag : {0}, oi : {1200}, fail_from : {300}]
      \cup [ltp : {200}, lag : {36}, oi : {1000}, fail_from : {WorkerNoFailure}]

\* logic.py:26-27: api_response.data.candles for each instrument
WorkerFetch(answer, now) ==
    [k \in AllInstruments |->
        IF k.strike >= answer.fail_from THEN << >>
        ELSE <<[t |-> now - answer.lag, oi |-> answer.oi]>>]

\* database.py:141-153: INSERT INTO oi_datapoints
log_oi_datapoint(table, instrument_key, timestamp, oi) ==
    Append(table, [instrument_key |-> instrument_key, timestamp |-> timestamp, oi |-> oi])

\* ORDER BY timestamp DESC (rows of equal timestamp in the order of their id)
RECURSIVE OrderByTimestampDesc(_)
OrderByTimestampDesc(rows) ==
    IF rows = << >> THEN << >>
    ELSE LET i == CHOOSE i \in DOMAIN rows :
                      /\ \A j \in DOMAIN rows : rows[j].timestamp <= rows[i].timestamp
                      /\ \A j \in 1..(i - 1) : rows[j].timestamp < rows[i].timestamp
         IN  <<rows[i]>> \o OrderByTimestampDesc(SubSeq(rows, 1, i - 1)
                                                   \o SubSeq(rows, i + 1, Len(rows)))

\* database.py:179-201: the rows (timestamp, oi) of the instrument not older
\* than minutes, latest first
get_recent_oi_datapoints(table, instrument_key, minutes, now) ==
    LET time_threshold == now - minutes
        Selected(row) == row.instrument_key = instrument_key /\ row.timestamp >= time_threshold
        rows == OrderByTimestampDesc(SelectSeq(table, Selected))
    IN  [i \in DOMAIN rows |-> [t |-> rows[i].timestamp, oi |-> rows[i].oi]]

\* database.py:155-177: INSERT INTO oi_results, results.get(m, 0) per column
store_oi_result(table, instrument_key, results, now) ==
    Append(table, [instrument_key |-> instrument_key, timestamp |-> now,
                   result |-> [m \in Range(time_intervals) |->
                                  IF m \in DOMAIN results THEN results[m]
                                  ELSE PyNumber(0, 1)]])

\* logic.py:17-39: the latest candle of the answer is logged; True when one was
fetch_and_store_oi_data(table, instrument_key, candles) ==
    IF candles # << >>
    THEN LET latest_candle == candles[Len(candles)]
         IN  [stored |-> TRUE,
              oi_datapoints |-> log_oi_datapoint(table, instrument_key,
                                    latest_candle.t, latest_candle.oi)]
    ELSE [stored |-> FALSE, oi_datapoints |-> table]

\* database.py:218-234: the keys of the listed instruments of the strikes
get_instrument_keys_for_strikes(listed, strikes) ==
    LET both == [i \in 1..(2 * Len(strikes)) |->
                    InstrumentKey(strikes[(i + 1) \div 2],
                                  IF i % 2 = 1 THEN "CE" ELSE "PE")]
        Listed(k) == k \in listed
    IN  SelectSeq(both, Listed)

\* logic.py:142-144: for key in instrument_keys, from position i on
RECURSIVE UpdateInstruments(_, _, _, _, _)
UpdateInstruments(instrument_keys, i, fetch, now, db) ==
    IF i > Len(instrument_keys) THEN db
    ELSE LET key == instrument_keys[i]
             fetched == fetch_and_store_oi_data(db.oi_datapoints, key, fetch[key])
             results == IF fetched.stored
                        THEN perform_oi_calculations(
                                 get_recent_oi_datapoints(fetched.oi_datapoints, key, 35, now))
                        ELSE << >>
         IN  UpdateInstruments(instrument_keys, i + 1, fetch, now,
                 [oi_datapoints |-> fetched.oi_datapoints,
                  oi_results |-> IF Len(results) = 0 THEN db.oi_results
                                 ELSE store_oi_result(db.oi_results, key, results[1], now)])

\* database.py:203-216
WorkerAllStrikes == SetToAscending({k.strike : k \in WorkerListed})

WorkerUnchangedOthers == UNCHANGED <<harnessVars, appVars, kiteVars, cliVars>>

\* logic.py:113-146: update_tracked_instruments, a call that runs to the end;
\* the next call comes a minute later
WorkerUpdate ==
    /\ clock < MaxWorkerClock
    /\ \E answer \in WorkerAnswers :
          LET atm_strike == find_atm_strike(answer.ltp, WorkerAllStrikes)
              relevant_strikes == logic_get_relevant_strikes(atm_strike, WorkerAllStrikes)
              instrument_keys == get_instrument_keys_for_strikes(WorkerListed, relevant_strikes)
              db == UpdateInstruments(instrument_keys, 1, WorkerFetch(answer, clock), clock,
                        [oi_datapoints |-> oi_datapoints, oi_results |-> oi_results])
          IN  /\ oi_datapoints' = db.oi_datapoints
              /\ oi_results' = db.oi_results
    /\ clock' = clock + 1
    /\ WorkerUnchangedOthers

\* logic.py:122-125: get_ltp returned None, the call is aborted
WorkerUpdateAborted ==
    /\ clock < MaxWorkerClock
    /\ clock' = clock + 1
    /\ UNCHANGED workerVars
    /\ WorkerUnchangedOthers

WorkerNext ==
    \/ WorkerUpdate
    \/ WorkerUpdateAborted

----------------------------------------------------------------------------
(* The programs, each run by itself, and app.py next to Kite *)

SpecWorker == RunInit /\ [][WorkerNext]_vars

SpecApp == RunInit /\ [][AppNext]_vars

\* app.py under fair scheduling: the scheduler thread, once the first update
\* has returned, is eventually started, and a scheduler thread whose cycle
\* has returned eventually ends its sleep and begins the next cycle, whatever
\* the requests do meanwhile
SpecAppFair ==
    RunInit /\ [][AppNext]_vars /\ WF_vars(AppStartScheduler) /\ WF_vars(AppSleep)

SpecKite == RunInit /\ [][KiteNext]_vars

SpecCli == RunInit /\ [][CliNext]_vars

ServiceNext ==
    \/ CycleNext
    \/ KiteNext

SpecService == RunInit /\ [][ServiceNext]_vars

----------------------------------------------------------------------------
(* Claims about the StrikeSelector, checked under SpecStrike *)

\* atm is a strike of the list and no strike of the list is nearer to the price
IsNearestMember(atm, ltp, strikes) ==
    /\ atm \in Range(strikes)
    /\ \A s \in Range(strikes) : Abs(atm - ltp) <= Abs(s - ltp)

\* C1 as stated: whichever ATM finder ran (find_atm_strike or get_atm_strike),
\* the value returned is a member of the strike list and no member is nearer
\* to the price.
C1_Original ==
    fn \in {"find_atm_strike", "get_atm_strike"}
        => IsNearestMember(ret.atm, args.ltp, args.strikes)

\* C1 amended: find_atm_strike returns a member of the strike list nearest to
\* the price; get_atm_strike, which is given no strike list, returns the
\* multiple of STRIKE_DIFFERENCE nearest to the price, whether or not the
\* chain lists it.
C1_Amended ==
    /\ fn = "find_atm_strike" => IsNearestMember(ret.atm, args.ltp, args.strikes)
    /\ fn = "get_atm_strike" =>
          /\ ret.atm % STRIKE_DIFFERENCE = 0
          /\ 2 * Abs(ret.atm - args.ltp) <= STRIKE_DIFFERENCE

\* find_atm_strike chose an inner strike for a price that is no strike itself
C1_Witness ==
    /\ fn = "find_atm_strike"
    /\ args.ltp \notin Range(args.strikes)
    /\ Len(args.strikes) >= 3
    /\ ret.atm = args.strikes[2]

\* C2 as stated: when the price is exactly half way between two adjacent
\* strikes of the list, the ATM finder that ran returned the lower of the two.
C2_LowerOnTie ==
    \A i \in 1..(Len(args.strikes) - 1) :
        ( /\ fn \in {"find_atm_strike", "get_atm_strike"}
          /\ args.strikes[i] < args.ltp
          /\ args.ltp - args.strikes[i] = args.strikes[i + 1] - args.ltp )
        => ret.atm = args.strikes[i]

\* C3: for a member ATM at position i of the ascending list, the band returned
\* by get_relevant_strikes (N = 2) and by logic.py's get_relevant_strikes
\* (N = 3) is exactly the strikes at positions max(1, i-N) .. min(len, i+N),
\* in order.
C3_BandIsClippedWindow ==
    \A i \in DOMAIN args.strikes :
        ( /\ fn \in {"get_relevant_strikes", "logic_get_relevant_strikes"}
          /\ ret.atm = args.strikes[i] )
        => LET N == IF fn = "get_relevant_strikes" THEN 2 ELSE 3
               lo == IF i - N < 1 THEN 1 ELSE i - N
               hi == IF i + N > Len(args.strikes) THEN Len(args.strikes) ELSE i + N
           IN  /\ Len(ret.band) = hi - lo + 1
               /\ \A k \in 1..(hi - lo + 1) : ret.band[k] = args.strikes[lo + k - 1]

\* the ATM is the second of at least six strikes: one strike below, two above
C3_Witness ==
    /\ fn = "get_relevant_strikes"
    /\ Len(args.strikes) >= 6
    /\ ret.atm = args.strikes[2]
    /\ ret.band = SubSeq(args.strikes, 1, 4)

\* C4 as stated: whenever the ATM is not a strike of the list, the band
\* selected (by get_relevant_strikes, or by app.py's loop over the chain) is
\* empty.
C4_Original ==
    ( /\ fn \in {"get_relevant_strikes", "logic_get_relevant_strikes",
                 "chain_strikes_processed"}
      /\ ret.atm \notin Range(args.strikes) )
    => ret.band = << >>

\* C4 amended: get_relevant_strikes returns the empty band for an ATM that is
\* not in the list; app.py processes exactly the chain strikes that lie on
\* the grid within NUM_STRIKES steps of the ATM, in chain order, whether or
\* not the ATM itself is a strike of the chain.
C4_Amended ==
    /\ ( /\ fn \in {"get_relevant_strikes", "logic_get_relevant_strikes"}
         /\ ret.atm \notin Range(args.strikes) )
       => ret.band = << >>
    /\ fn = "chain_strikes_processed" =>
          /\ Range(ret.band) =
                {s \in Range(args.strikes) :
                    /\ Abs(s - ret.atm) <= NUM_STRIKES * STRIKE_DIFFERENCE
                    /\ (s - ret.atm) % STRIKE_DIFFERENCE = 0}
          /\ \A j \in 1..(Len(ret.band) - 1) : ret.band[j] < ret.band[j + 1]

\* get_relevant_strikes was given an ATM outside a list of several strikes
C4_Witness ==
    /\ fn = "get_relevant_strikes"
    /\ ret.atm \notin Range(args.strikes)
    /\ Len(args.strikes) >= 3
    /\ ret.band = << >>

----------------------------------------------------------------------------
(* Claims about the ChangeCalculator, checked under SpecChange *)

\* the candles at or before the target time
Eligible(candles, target_time) ==
    {i \in DOMAIN candles : candles[i].t <= target_time}

\* the latest of them
PastSample(candles, target_time) ==
    candles[CHOOSE i \in Eligible(candles, target_time) :
                \A j \in Eligible(candles, target_time) : candles[j].t <= candles[i].t]

LatestSample(candles) == candles[Len(candles)]

\* no past sample for the window, or one whose OI is zero
NoUsablePast(candles, target_time) ==
    \/ Eligible(candles, target_time) = {}
    \/ PastSample(candles, target_time).oi = 0

\* value is the number of percent by which latest_oi differs from past_oi,
\* rounded to the nearest hundredth
IsPercentRoundedTo2(value, latest_oi, past_oi) ==
    /\ value.kind = "number"
    /\ (value.num * 100) % value.den = 0
    /\ LET h == (value.num * 100) \div value.den
       IN  2 * Abs(h * past_oi - (latest_oi - past_oi) * 10000) <= past_oi

\* value is exactly ((latest_oi - past_oi) / past_oi) * 100
IsExactPercent(value, latest_oi, past_oi) ==
    /\ value.kind = "number"
    /\ value.num * past_oi = (latest_oi - past_oi) * 100 * value.den

\* C5 as stated: a window with no sample at or before its lookback target, or
\* whose past sample has OI 0, gets the value "unavailable" (None), never a
\* number: in app.py's calculate_oi_change and in logic.py's.
C5_UnavailableNeverZero ==
    /\ fn = "calculate_oi_change" =>
          \A minutes \in Range(OI_INTERVALS_MIN) :
              NoUsablePast(args.candles, args.now - minutes)
                  => ret[minutes].kind = "None"
    /\ fn = "logic_calculate_oi_change" =>
          ( (ret.initial_oi.kind = "None" \/ ret.initial_oi.num = 0)
                => ret.change.kind = "None" )

\* C6 as stated: where a past sample with OI > 0 exists for a window, the
\* change computed (by app.py's calculate_oi_change, by calculate_oi_differences)
\* is the signed percentage rounded to 2 decimal places.
C6_Original ==
    /\ fn = "calculate_oi_change" =>
          \A minutes \in Range(OI_INTERVALS_MIN) :
              ~NoUsablePast(args.candles, args.now - minutes)
                  => IsPercentRoundedTo2(ret[minutes], LatestSample(args.candles).oi,
                         PastSample(args.candles, args.now - minutes).oi)
    /\ fn = "calculate_oi_differences" =>
          \A interval \in Range(OI_CHANGE_INTERVALS_MIN) :
              ~NoUsablePast(args.candles, args.now - interval)
                  => IsPercentRoundedTo2(ret.pct_diff[interval],
                         LatestSample(args.candles).oi,
                         PastSample(args.candles, args.now - interval).oi)

\* C6 amended: where a past sample with OI > 0 exists for a window, app.py's
\* calculate_oi_change gives the signed percentage rounded to 2 decimal
\* places; calculate_oi_differences gives the signed percentage unrounded,
\* and the cell that generate_options_tables shows is that value rounded to
\* 2 decimal places.
C6_Amended ==
    /\ fn = "calculate_oi_change" =>
          \A minutes \in Range(OI_INTERVALS_MIN) :
              ~NoUsablePast(args.candles, args.now - minutes)
                  => IsPercentRoundedTo2(ret[minutes], LatestSample(args.candles).oi,
                         PastSample(args.candles, args.now - minutes).oi)
    /\ fn = "calculate_oi_differences" =>
          \A interval \in Range(OI_CHANGE_INTERVALS_MIN) :
              ~NoUsablePast(args.candles, args.now - interval)
                  => IsExactPercent(ret.pct_diff[interval],
                         LatestSample(args.candles).oi,
                         PastSample(args.candles, args.now - interval).oi)
    /\ fn = "formatted_pct_str" =>
          \A interval \in Range(OI_CHANGE_INTERVALS_MIN) :
              ~NoUsablePast(args.candles, args.now - interval)
                  => IsPercentRoundedTo2(ret[interval], LatestSample(args.candles).oi,
                         PastSample(args.candles, args.now - interval).oi)

\* the spec's example: 1000 ten minutes ago, 1200 now, a change of 20.00 %
C6_Witness ==
    /\ fn = "calculate_oi_change"
    /\ args.candles = <<[t |-> 0, oi |-> 1000], [t |-> 10, oi |-> 1200]>>
    /\ args.now = 10
    /\ ret[10] = PyNumber(2000, 100)

----------------------------------------------------------------------------
(* Claims about the threshold and the counters of the CLI, checked under SpecCli *)

\* the thresholds T(W) of the specification
T == (10 :> 10) @@ (15 :> 15) @@ (30 :> 25)

CliSides == {"call", "put"}

\* the cells on the console: <<side, row, window>>
ScreenCells ==
    UNION {{<<side, i, W>> : i \in DOMAIN screen[side], W \in DOMAIN T} : side \in CliSides}

ScreenCell(c) == screen[c[1]][c[2]].cells[c[3]]

\* C7 as stated: a cell (instrument, window W) is counted as breached if and
\* only if its change is available and the absolute value of the change is
\* strictly greater than T(W): a fall larger than T(W) is a breach as a rise
\* is, and a change equal to T(W) is not.  (An unavailable change is printed
\* as 0 by create_oi_table, and 0 exceeds no threshold.)
C7_BreachedIffAbsExceeds ==
    \A c \in ScreenCells :
        ScreenCell(c).red <=> Exceeds(ScreenCell(c).change, T[c[3]])

\* the cells of the strikes that the last completed cycle selected
SelectedCells ==
    {c \in ScreenCells :
        screen[c[1]][c[2]].strike \in Range(cli_cycle.relevant_strikes)}

\* C9 as stated: in every cycle, total equals the number of (selected
\* instrument, window) pairs of that cycle's grid, and breached equals the
\* number of those pairs whose change is counted as breached.
C9_CountsAreOverTheGrid ==
    /\ cli_cycle.total_cells = Cardinality(SelectedCells)
    /\ cli_cycle.total_red_cells = Cardinality({c \in SelectedCells : ScreenCell(c).red})

----------------------------------------------------------------------------
(* Claims about the alert, checked under SpecGrid *)

----------------------------------------------------------------------------
(* Claims about failed fetches, checked under SpecService *)

AtmErrorPanel == Panel("Error: Could not determine ATM strike.", "Update Error")

\* a step of app.py in which the price fetch or the chain fetch fails
AppFetchFails ==
    /\ \E self \in Threads :
          /\ app_pc[self] \in {"get_atm_strike", "get_option_chain"}
          /\ app_pc'[self] = "return"
    /\ app_state'.message \in {"Could not determine ATM strike.",
                               "Could not fetch option chain for expiry."}

\* the step of Kite that displays the outcome of an iteration whose price fetch failed
KiteShowsFailedFetch ==
    /\ kite_pc = "live.update"
    /\ kite_pc' = "time.sleep"
    /\ display_content.kind = "Panel"
    /\ display_content = AtmErrorPanel

\* what a reader of app.py's /status obtains of the last published result stays
AppKeepsPublished ==
    /\ Len(app_state'.data) = Len(app_state.data)
    /\ app_state'.data = app_state.data
    /\ app_state'.last_updated = app_state.last_updated

\* what Kite's Live display shows stays
KiteKeepsDisplay == live'.kind = live.kind /\ live' = live

\* C10 as stated: when the price fetch or the chain fetch fails in a cycle,
\* the previously published result is what readers still obtain afterwards:
\* the failed cycle does not replace or clear it (app.py's data, Kite's
\* displayed tables).
C10_Original ==
    [][ /\ AppFetchFails => AppKeepsPublished
        /\ (KiteShowsFailedFetch /\ live.kind = "Group") => KiteKeepsDisplay ]_vars

\* C10 amended: in app.py a cycle whose price fetch or chain fetch fails
\* leaves the published data and last_updated as they were, and nothing but
\* the publishing steps of a complete cycle changes them; in Kite a cycle
\* whose price fetch fails replaces the displayed tables by the "Update
\* Error" panel.
C10_Amended ==
    [][ /\ AppFetchFails => AppKeepsPublished
        /\ (\A self \in Threads : app_pc[self] \notin {"process", "L279"})
               => AppKeepsPublished
        /\ KiteShowsFailedFetch => (live'.kind = "Panel" /\ live' = AtmErrorPanel) ]_vars

\* app.py holds a published result and its price fetch has just failed; Kite
\* shows tables and is about to display the outcome of a failed price fetch
C10_Witness ==
    /\ app_state.data # << >>
    /\ app_pc["scheduler"] = "return"
    /\ app_state.message = "Could not determine ATM strike."
    /\ kite_pc = "live.update"
    /\ display_content.kind = "Panel"
    /\ display_content = AtmErrorPanel
    /\ live.kind = "Group"

----------------------------------------------------------------------------
(* Claims about the web application, checked under SpecApp *)

\* the rows of a published result for the side of instrument k
SideRows(data, k) == IF k.side = "CE" THEN data[1].calls ELSE data[1].puts

HasRow(data, k) ==
    /\ data # << >>
    /\ \E i \in DOMAIN SideRows(data, k) : SideRows(data, k)[i].strike = k.strike

HasUnavailableRow(data, k) ==
    /\ data # << >>
    /\ \E i \in DOMAIN SideRows(data, k) :
          /\ SideRows(data, k)[i].strike = k.strike
          /\ \A minutes \in Range(OI_INTERVALS_MIN) :
                SideRows(data, k)[i].chg[minutes].kind = "None"

\* the step of thread self that stores the result of a cycle in app_state["data"]
PublishStep(self) == app_pc[self] = "process" /\ app_pc'[self] = "L277"

\* C11 as stated: when the sample fetch fails for one selected instrument in
\* a cycle that publishes, and the instrument had a row in the result of an
\* earlier cycle, its row is present in the published result with its cells
\* marked unavailable: it is not left out.
C11_FailedFetchKeepsRow ==
    [][ \A self \in Threads :
          PublishStep(self) =>
              \A k \in DOMAIN app_candles'[self] :
                  (app_candles'[self][k] = << >> /\ HasRow(app_state.data, k))
                      => HasUnavailableRow(app_state'.data, k) ]_vars

\* every result a complete cycle can store in app_state["data"]
CycleResults ==
    {<<[calls |-> ProcessContracts(get_atm_strike(ltp),
                      OptionChain(ListedInstruments(listing)), FetchOf(f, t), t).calls,
        puts |-> ProcessContracts(get_atm_strike(ltp),
                      OptionChain(ListedInstruments(listing)), FetchOf(f, t), t).puts,
        alert |-> ProcessContracts(get_atm_strike(ltp),
                      OptionChain(ListedInstruments(listing)), FetchOf(f, t), t).alert]>> :
        f \in {g \in AppFetches : g.cold # "malformed"},
        ltp \in AppPrices, listing \in AppListings, t \in 0..MaxClock}

\* the reader has read app_state["data"] in this call of status_endpoint
ReaderHoldsData == reader_pc \in {"L310 if", "L310 strftime", "jsonify"}

\* C12: under every interleaving of a reader with the refresh cycles, the
\* cells and the alert the reader obtains in one call are the rows and the
\* alert of one and the same cycle (or no result at all, before the first
\* publication): never the rows of one cycle with the alert of another.
C12_ReaderSeesOneCycle ==
    ReaderHoldsData =>
        \/ response[1].data = << >>
        \/ response[1].data \in CycleResults

\* a reader holds a result with the alert raised while a later cycle has
\* already stored another result
C12_Witness ==
    /\ reader_pc = "jsonify"
    /\ response[1].data # << >>
    /\ response[1].data[1].alert
    /\ app_state.data # response[1].data

\* thread self is inside update_data_in_background
InCycle(self) ==
    app_pc[self] \in {"L224", "get_atm_strike", "get_option_chain", "process",
                      "L277", "L278", "L279"}

\* C13: no two refresh cycles are in progress at the same time: the cycle of
\* the main thread (the initial one) has returned before the scheduler
\* thread exists, and the scheduler runs its cycles one after the other.
C13_CyclesAreSequential ==
    /\ ~(InCycle("main") /\ InCycle("scheduler"))
    /\ app_pc["scheduler"] # "not started" => app_pc["main"] = "app.run"

\* a later cycle of the scheduler is in progress after the initial cycle of
\* the main thread has published
C13_Witness ==
    /\ InCycle("scheduler")
    /\ clock >= 1
    /\ app_pc["main"] = "app.run"
    /\ app_state.data # << >>

\* C17: the data field of /status reports no result until the first cycle
\* that publishes one, and once a result is there no later step of any cycle
\* (successful, failed or aborted) makes the field report none again.
C17_PublishedStaysAvailable ==
    /\ app_state.data = << >>
    /\ [][ /\ app_state.data # << >> => app_state'.data # << >>
           /\ (app_state.data = << >> /\ app_state'.data # << >>)
                 => \E self \in Threads : PublishStep(self) ]_vars

\* a reader obtains a published result together with the status of a cycle
\* that was aborted after the publication
C17_Witness ==
    /\ reader_pc = "jsonify"
    /\ response[1].status = "Error"
    /\ response[1].message = "A critical error occurred during the data update cycle."
    /\ response[1].data # << >>

----------------------------------------------------------------------------
(* Claims about the lookup of the past sample and the windows, checked under SpecChange *)

\* the OI of the sample with the greatest timestamp at or before the target,
\* None when every sample is later than the target
OIAtOrBefore(candles, target_time) ==
    LET at_or_before == {i \in DOMAIN candles : candles[i].t <= target_time}
    IN  IF at_or_before = {} THEN PyNone
        ELSE PyNumber(candles[CHOOSE i \in at_or_before :
                                  \A j \in at_or_before : candles[j].t <= candles[i].t].oi, 1)

Lookups == {"app past_oi", "find_oi_at_timestamp", "past_candle"}

\* C15 as stated: for every series ordered by timestamp and every target time
\* the lookup of the past sample (in app.py, in Kite and in logic.py) returns
\* the sample with the greatest timestamp at or before the target, never a
\* later one, and 'not found' (None, not an OI of 0) when every sample is
\* later than the target.
C15_LookupIsAtOrBefore ==
    fn \in Lookups => ret.past_oi = OIAtOrBefore(args.candles, ret.target_time)

RunTwice == {"calculate_oi_change again", "calculate_oi_differences again"}

C19_TargetIsRelativeToLatestSample ==
    fn \in Lookups =>
        ret.target_time = args.candles[Len(args.candles)].t - ret.minutes

\* the position of the sample with the greatest timestamp at or before the
\* target, 0 when there is none
PastIndex(candles, target_time) ==
    LET at_or_before == {i \in DOMAIN candles : candles[i].t <= target_time}
    IN  IF at_or_before = {} THEN 0
        ELSE CHOOSE i \in at_or_before : \A j \in at_or_before : candles[j].t <= candles[i].t

\* the series that differ from candles in the OI of one sample other than
\* those at the positions keep
Perturbed(candles, keep) ==
    {[candles EXCEPT ![j].oi = v] : j \in DOMAIN candles \ keep, v \in OIValues}

\* C20: the change for a window W depends only on the latest sample and on
\* the past sample found for W: a series that differs in any other sample
\* (the past sample of another window, whatever result that window then
\* gets) has the same change for W; in app.py and in Kite.
C20_WindowsAreIndependent ==
    /\ fn = "calculate_oi_change" =>
          \A minutes \in Range(OI_INTERVALS_MIN) :
              \A other \in Perturbed(args.candles,
                              {Len(args.candles), PastIndex(args.candles, args.now - minutes)}) :
                  calculate_oi_change(other, other[Len(other)].oi, args.now)[minutes]
                      = ret[minutes]
    /\ fn = "calculate_oi_differences" =>
          \A interval \in Range(OI_CHANGE_INTERVALS_MIN) :
              \A other \in Perturbed(args.candles,
                              {Len(args.candles), PastIndex(args.candles, args.now - interval)}) :
                  calculate_oi_differences(other, args.now).pct_diff[interval]
                      = ret.pct_diff[interval]

\* three samples: the 10-minute window finds 1000 (+20 %), the 15-minute
\* window finds another sample, 1200 (0 %)
C20_Witness ==
    /\ fn = "calculate_oi_change"
    /\ Len(args.candles) = 3
    /\ PastIndex(args.candles, args.now - 10) = 2
    /\ PastIndex(args.candles, args.now - 15) = 1
    /\ ret[10] = PyNumber(2000, 100)
    /\ ret[15] = PyNumber(0, 100)

----------------------------------------------------------------------------
(* Claims about the stored series, checked under SpecWorker *)

\* the stored samples of instrument k, in the order they were stored
Series(table, k) ==
    LET OfInstrument(row) == row.instrument_key = k
    IN  SelectSeq(table, OfInstrument)

\* C14 as stated: after any sequence of cycles no instrument's series holds
\* two samples with the same timestamp, and its timestamps are strictly
\* increasing in the order stored: a sample whose timestamp equals or
\* precedes a stored one is rejected.
C14_TimestampsStrictlyIncrease ==
    \A k \in WorkerListed :
        \A i, j \in DOMAIN Series(oi_datapoints, k) :
            i < j => Series(oi_datapoints, k)[i].timestamp
                        < Series(oi_datapoints, k)[j].timestamp

\* the greatest timestamp of a non-empty series
LatestTimestamp(series) ==
    CHOOSE ts \in {series[i].timestamp : i \in DOMAIN series} :
        \A i \in DOMAIN series : series[i].timestamp <= ts

\* C18 as stated: a call stores a sample for an instrument only if the
\* instrument's series is empty or the sample's timestamp is not earlier
\* than the latest timestamp of the series; otherwise the series is left
\* exactly as it was.
C18_AppendOnlyAtOrAfterLatest ==
    [][ \A k \in WorkerListed :
          LET before == Series(oi_datapoints, k)
              after == Series(oi_datapoints', k)
          IN  \/ after = before
              \/ /\ Len(after) = Len(before) + 1
                 /\ SubSeq(after, 1, Len(before)) = before
                 /\ \/ before = << >>
                    \/ after[Len(after)].timestamp >= LatestTimestamp(before) ]_vars

----------------------------------------------------------------------------
(* Claims about the alert and the end of a cycle of the web application,   *)
(* checked under SpecApp                                                   *)

\* the number of cells of a published result that exceed their threshold
Breached(grid) ==
    LET Red(rows) == {<<i, minutes>> \in (DOMAIN rows) \X Range(OI_INTERVALS_MIN) :
                         Exceeds(rows[i].chg[minutes], APP_THRESHOLDS[minutes])}
    IN  Cardinality(Red(grid.calls)) + Cardinality(Red(grid.puts))

\* C21: the alert of the result a cycle publishes is determined by the
\* breached cells of that result and the cycle's total: it is raised exactly
\* when breached / total > 0.5, whatever the alert of the result published
\* before was.
C21_AlertFromThisCyclesCounts ==
    [][ \A self \in Threads :
          PublishStep(self) =>
              app_state'.data[1].alert =
                  (2 * Breached(app_state'.data[1])
                     > Len(strikes_to_fetch(app_atm_strike[self].num))
                          * Len(OI_INTERVALS_MIN) * 2) ]_vars

\* a reader still holds a result with the alert raised while the result of
\* a later cycle has it lowered
C21_Witness ==
    /\ reader_pc = "jsonify"
    /\ response[1].data # << >>
    /\ response[1].data[1].alert
    /\ ~app_state.data[1].alert

\* the CLI (oi_tracker.py:159-176): the alert on the console is raised
\* exactly when the red cells counted in this pass are more than half of its
\* total
C21_CliAlertFromThisPass ==
    screen.alert = (cli_cycle.total_cells > 0
                      /\ 2 * cli_cycle.total_red_cells > cli_cycle.total_cells)

\* the step of thread self that ends the processing of the selected contracts
LeavesProcess(self) == app_pc[self] = "process" /\ app_pc'[self] # "process"

\* C22 as stated: within one cycle a failure while one selected instrument is
\* processed (its sample fetch or the computation of its changes) is confined
\* to that instrument: the processing of the selected contracts ends in the
\* publish step, or in the warning of a cycle without rows, and the published
\* result has a row for every selected instrument whose fetch gave candles.
C22_FailureIsConfined ==
    [][ \A self \in Threads :
          LeavesProcess(self) =>
              /\ PublishStep(self) \/ app_state'.status = "Warning"
              /\ PublishStep(self) =>
                    \A k \in DOMAIN app_candles'[self] :
                        app_candles'[self][k] # << >> => HasRow(app_state'.data, k) ]_vars

\* every result a complete cycle that runs at time t can store in app_state["data"]
CycleResultsAt(t) ==
    {<<[calls |-> ProcessContracts(get_atm_strike(ltp),
                      OptionChain(ListedInstruments(listing)), FetchOf(f, t), t).calls,
        puts |-> ProcessContracts(get_atm_strike(ltp),
                      OptionChain(ListedInstruments(listing)), FetchOf(f, t), t).puts,
        alert |-> ProcessContracts(get_atm_strike(ltp),
                      OptionChain(ListedInstruments(listing)), FetchOf(f, t), t).alert]>> :
        f \in {g \in AppFetches : g.cold # "malformed"},
        ltp \in AppPrices, listing \in AppListings}

\* C23 as stated: under every interleaving of a reader with the background
\* cycle, a reader that receives a result receives with it the generation
\* time of the cycle that built it: the time is present and is the time of a
\* cycle that can have built the result.
C23_ReaderGetsTimeOfItsGrid ==
    (reader_pc = "jsonify" /\ response[1].data # << >>) =>
        /\ response[1].last_updated.kind # "None"
        /\ response[1].data \in CycleResultsAt(response[1].last_updated.num)

\* C24: in every cycle the steps occur in the order fetch price, fetch chain,
\* select strikes, per-instrument sample fetch and change computation,
\* aggregate, publish: the chain is fetched after the price, no instrument
\* sample is fetched before the price and the chain (and so the band) are
\* known, the samples fetched are those of every selected instrument of the
\* chain, and the result is stored only by the step that has processed them.
C24_StepsInOrder ==
    [][ \A self \in Threads :
          /\ (app_option_chain[self] = << >> /\ app_option_chain'[self] # << >>)
                => app_atm_strike[self].kind = "number"
          /\ (DOMAIN app_candles[self] = {} /\ DOMAIN app_candles'[self] # {})
                => /\ app_atm_strike[self].kind = "number"
                   /\ app_option_chain[self] # << >>
                   /\ DOMAIN app_candles'[self] =
                          ProcessedInstruments(app_atm_strike[self].num,
                                               app_option_chain[self])
          /\ (app_pc'[self] # app_pc[self] /\ app_state'.data # app_state.data)
                => /\ PublishStep(self)
                   /\ DOMAIN app_candles'[self] # {} ]_vars

C24_Witness ==
    /\ app_pc["scheduler"] = "L277"
    /\ Cardinality(DOMAIN app_candles["scheduler"]) = 10
    /\ app_state.data # << >>
    /\ app_state.status = "Working"

----------------------------------------------------------------------------
(* Claims about the retrieval of the stored samples, checked under         *)
(* SpecWorker                                                              *)

\* C25 as stated: once a sample has been recorded for an instrument, its most
\* recent sample remains retrievable after any sequence of cycles, however
\* old it is: the rows get_recent_oi_datapoints returns for the instrument
\* are not empty and begin with the sample of the latest timestamp.
C25_LatestSampleRetrievable ==
    \A k \in WorkerListed :
        Series(oi_datapoints, k) # << >> =>
            LET recent == get_recent_oi_datapoints(oi_datapoints, k, 35, clock)
            IN  /\ recent # << >>
                /\ recent[1].t = LatestTimestamp(Series(oi_datapoints, k))

----------------------------------------------------------------------------
(* Claims about the scheduler of the web application, checked under        *)
(* SpecAppFair                                                             *)

\* the cycle of thread self has ended at time c in a failure
FailedCycle(self, c) ==
    /\ app_pc[self] = "return"
    /\ app_state.status = "Error"
    /\ clock = c

\* C26: a cycle that fails is not retried within that cycle and does not stop
\* the scheduler: a step that sets the status to 'Error' ends the cycle of
\* its thread, and under fair scheduling every failed cycle is followed by a
\* new cycle: the scheduler's after the interval (while the clock is below
\* its bound), the first one's when the scheduler thread starts.
C26_FailedCycleIsFollowed ==
    /\ [][ \A self \in Threads :
              (app_pc'[self] # app_pc[self] /\ app_state'.status = "Error"
                 /\ app_state.status # "Error")
                  => app_pc'[self] = "return" ]_vars
    /\ \A c \in 0..(MaxClock - 2) :
          FailedCycle("scheduler", c)
              ~> (app_pc["scheduler"] = "update_data_in_background" /\ clock = c + 1)
    /\ FailedCycle("main", 0)
          ~> (app_pc["scheduler"] = "update_data_in_background" /\ clock = 0)

C26_Witness ==
    /\ app_pc["scheduler"] = "update_data_in_background"
    /\ clock = 1
    /\ app_state.status = "Error"
    /\ app_state.data = << >>

----------------------------------------------------------------------------
(* Claims about the counts and the rows of the CLI, checked under SpecCli  *)

\* C27 as stated: in every cycle and after any sequence of earlier cycles,
\* including ones in which the band moved, the breached-cell count used for
\* the alert is between 0 and the total-cell count used for the alert.
C27_BreachedAtMostTotal ==
    /\ 0 <= cli_cycle.total_red_cells
    /\ cli_cycle.total_red_cells <= cli_cycle.total_cells

\* C28 as stated: every row of the result shown by a cycle belongs to a
\* strike of that cycle's selected band: instruments of strikes that left
\* the band contribute no rows to later cycles.
C28_RowsAreOfTheBand ==
    \A side \in CliSides :
        \A i \in DOMAIN screen[side] :
            screen[side][i].strike \in Range(cli_cycle.relevant_strikes)

\* the same for app.py, under SpecApp: the rows a cycle publishes are rows of
\* strikes of the band of that cycle
C28_AppRowsAreOfTheBand ==
    [][ \A self \in Threads :
          PublishStep(self) =>
              \A rows \in {app_state'.data[1].calls, app_state'.data[1].puts} :
                  \A i \in DOMAIN rows :
                      rows[i].strike \in
                          Range(strikes_to_fetch(app_atm_strike[self].num)) ]_vars

----------------------------------------------------------------------------
(* Claims about the status and the cycle without rows of the web           *)
(* application, checked under SpecApp                                      *)

\* C29: the status is 'Working' only while a cycle is in progress: every way
\* a cycle ends sets the status to 'Error', 'Warning' or 'OK' before the
\* cycle returns, so while no thread is inside a cycle the status is not
\* 'Working', and once a cycle has returned it is one of the three.
C29_WorkingOnlyInCycle ==
    (\A self \in Threads : ~InCycle(self)) =>
        /\ app_state.status # "Working"
        /\ (\E self \in Threads : app_pc[self] = "return")
              => app_state.status \in {"Error", "Warning", "OK"}

C29_Witness ==
    /\ app_pc["main"] = "app.run"
    /\ app_pc["scheduler"] = "return"
    /\ clock = 1
    /\ app_state.status = "Warning"

\* C30: a cycle in which no selected call and no selected put yields a row
\* publishes nothing: the step that ends the processing of the contracts
\* either stores a result that has a row, or (when it sets the status to
\* 'Warning') returns and leaves the published data with its alert and the
\* last-updated time as they were.
C30_NoRowsPublishesNothing ==
    [][ \A self \in Threads :
          LeavesProcess(self) =>
              /\ PublishStep(self) =>
                    ~(app_state'.data[1].calls = << >> /\ app_state'.data[1].puts = << >>)
              /\ app_state'.status = "Warning" =>
                    /\ app_pc'[self] = "return"
                    /\ app_state'.data = app_state.data
                    /\ app_state'.last_updated = app_state.last_updated ]_vars

C30_Witness ==
    /\ app_pc["scheduler"] = "return"
    /\ app_state.status = "Warning"
    /\ app_state.data # << >>
    /\ app_state.data[1].alert
    /\ app_state.last_updated = PyNumber(0, 1)

====
